---- MODULE Spec2Model ----
(***************************************************************************)
(* Verification model of the email -> AI classification -> Pipedrive       *)
(* pipeline of backend/app: the classification client (analyze_email.py),  *)
(* the provider clients' call helper (pipedrive_manager.py,                *)
(* microsoft_manager.py, error_handler.py), the orchestrator               *)
(* (orchestrator.py) and the webhook ingestion (webhooks/microsoft.py).    *)
(*                                                                         *)
(* Several specifications share the module, among them:                    *)
(*   SpecClassify  the classification client on bounded response texts     *)
(*   SpecCall      one decorated provider-client operation                 *)
(*   Spec          webhook ingestion driving the orchestrator and the CRM  *)
(*   SpecResolve   two concurrent CRM resolutions for one recipient        *)
(*   SpecRateLimit the rate limiter                                        *)
(***************************************************************************)
EXTENDS Integers, Sequences, FiniteSets, TLC

VARIABLES
    \* ---- classification client (SpecClassify) ----
    clsPc,        \* "input" | "parsed" | "classified"
    content,      \* response text of the classification service, a token sequence
    parsed,       \* outcome of _parse_ai_response(content)
    statuses,     \* HTTP status the service gave to each of the attempts
    classified,   \* what AgentOrchestrator._analyze_email returned
    \* ---- one decorated provider-client operation (SpecCall) ----
    op,           \* the domain operation being called
    callPc,       \* "start" | "refresh" | "retry" | "done"
    attempt,      \* attempt index of the retry decorator
    tokens,       \* the client's in-memory token pair (0 = None)
    stored,       \* token pair held in the integrations record
    issued,       \* number of token pairs the token endpoint has issued
    requests,     \* API requests issued for the operation: <<[token, status_code]>>
    refreshes,    \* requests sent to the token endpoint
    refreshFailed,\* a refresh attempt raised TokenRefreshError
    opResult,     \* "pending" | "value" | "fallback" | "raised"
    \* ---- webhook ingestion, orchestrator, store and CRM (Spec) ----
    pc,             \* position of the one sequential worker
    handled,        \* number of notifications whose handling has finished
    faults,         \* store and provider calls that have failed so far
    notification,   \* the notification being handled
    disposition,    \* how the handling of the last notification ended
    integrations,   \* store: the mailbox integration record of each user
    emails,         \* store: rows of the emails table
    activity_logs,  \* store: rows of the activity_logs table (the audit trail)
    persons,        \* CRM: persons
    organizations,  \* CRM: organizations
    deals,          \* CRM: deals
    notes,          \* CRM: notes
    email_data,     \* process_email: the normalized email
    ai_result,      \* process_email: result of _analyze_email
    deal_check,     \* _handle_pipedrive_operations: the result being built
    has_open_deal,  \* _handle_pipedrive_operations: local
    org_exists,     \* _handle_pipedrive_operations: local
    contact_existed,\* _handle_pipedrive_operations: local
    result,         \* what process_email returned (or that it raised)
    audit,          \* audit write of the current invocation: "none" | "failed" | "written"
    crmCalled,      \* the current invocation has issued a CRM request
    note_log,       \* _log_email_note of the current invocation: its summary, and
                    \* what became of its log_note request
    \* ---- webhook endpoint (SpecIngest) ----
    ingPc,          \* "off" | "received" | "processing" | "done"
    environment,    \* os.getenv("ENVIRONMENT")
    body,           \* kind of request body: "validation" | "empty" | "not_json" | "json"
    payload,        \* webhook_data["value"]: the notifications of the request
    cursor,         \* index of the notification the loop is at
    handedOver,     \* indices of the notifications given to AgentOrchestrator
    httpStatus,     \* HTTP status the endpoint answered with (0 = none yet)
    \* ---- outcome categorizer (SpecCategorize) ----
    catPc,          \* "off" | "input" | "done"
    cat_ai,         \* argument ai_result
    cat_pd,         \* argument pipedrive_result
    cat_outcome,    \* what _categorize_webhook_outcome returned or raised
    \* ---- reads of the credential store (SpecCredential) ----
    credPc,         \* "off" | "read" | "done"
    credPath,       \* the reading function
    credRow,        \* access_token and refresh_token of the integrations row
    credFailed,     \* a decrypt_token call of the read raised
    credResult,     \* what the read returned or raised
    \* ---- concurrent calls of one (user, provider) (SpecRefresh) ----
    rProvider,      \* "pipedrive" | "microsoft"
    rPc,            \* position of each call: "start" | "refresh" | "await_token" | "retry" | "done"
    rTokens,        \* self.tokens of each call's manager
    rStored,        \* token pair held in the integrations record
    rIssued,        \* number of token pairs the token endpoint has issued
    rInflight,      \* token response on its way to each call
    rRefreshLog,    \* refresh requests received by the token endpoint
    rResult,        \* outcome of each call: "pending" | "value" | "fallback"
    \* ---- concurrent resolutions for one recipient (SpecResolve) ----
    wPc,            \* position of each _handle_pipedrive_operations invocation
    wLocal,         \* its locals: contact, contact_existed, has_open_deal, org_exists
    wResult,        \* the deal_created of the result it returned ("pending" before)
    \* ---- the rate limiter (SpecRateLimit) ----
    rlOperation,    \* the operation checked, for one user
    rlClock,        \* datetime.utcnow(), in whole seconds
    rlWindows,      \* rate_limit_windows: requests_count of the row of each window_start
    rlAdmitted,     \* checks answered True, by the second they were made in
    rlFaults,       \* store calls of the limiter that have failed so far
    rlReturned      \* what the last check_rate_limit returned

clsVars == <<clsPc, content, parsed, statuses, classified>>
callVars == <<op, callPc, attempt, tokens, stored, issued, requests, refreshes,
              refreshFailed, opResult>>

storeVars == <<integrations, emails, activity_logs>>
crmVars == <<persons, organizations, deals, notes>>
hookVars == <<handled, faults, notification, disposition>>
orchVars == <<email_data, ai_result, deal_check, contact_existed, has_open_deal,
              org_exists, result, audit, crmCalled, note_log>>
pipeVars == <<pc, hookVars, storeVars, crmVars, orchVars>>

ingVars == <<ingPc, environment, body, payload, cursor, handedOver, httpStatus>>

catVars == <<catPc, cat_ai, cat_pd, cat_outcome>>
credVars == <<credPc, credPath, credRow, credFailed, credResult>>
refreshVars == <<rProvider, rPc, rTokens, rStored, rIssued, rInflight, rRefreshLog, rResult>>
resolveVars == <<wPc, wLocal, wResult>>
limitVars == <<rlOperation, rlClock, rlWindows, rlAdmitted, rlFaults, rlReturned>>

\* what the actions of one specification leave alone
besidesClassify == <<callVars, pipeVars, ingVars, catVars, credVars, refreshVars, resolveVars, limitVars>>
besidesCall == <<clsVars, pipeVars, ingVars, catVars, credVars, refreshVars, resolveVars, limitVars>>
besidesPipeline == <<clsVars, callVars, ingVars, catVars, credVars, refreshVars, resolveVars, limitVars>>
besidesIngest == <<clsVars, callVars, pipeVars, catVars, credVars, refreshVars, resolveVars, limitVars>>
besidesCategorize == <<clsVars, callVars, pipeVars, ingVars, credVars, refreshVars, resolveVars, limitVars>>
besidesCredential == <<clsVars, callVars, pipeVars, ingVars, catVars, refreshVars, resolveVars, limitVars>>

besidesRefresh == <<clsVars, callVars, pipeVars, ingVars, catVars, credVars, resolveVars, limitVars>>

\* the concurrent resolutions act on the CRM of the pipeline
besidesResolve == <<clsVars, callVars, pc, hookVars, storeVars, notes, orchVars,
                    ingVars, catVars, credVars, refreshVars, limitVars>>
besidesLimit == <<clsVars, callVars, pipeVars, ingVars, catVars, credVars,
                  refreshVars, resolveVars>>

vars == <<clsVars, callVars, pipeVars, ingVars, catVars, credVars, refreshVars,
          resolveVars, limitVars>>

(***************************************************************************)
(* Bounds                                                                  *)
(***************************************************************************)
MaxLen == 5            \* longest response text, in tokens
MaxNotifications == 2  \* notifications handled in one behaviour
MaxFaults == 2         \* failing store and provider calls in one behaviour
MaxPayload == 2        \* notifications in one webhook request
MaxClock == 1          \* seconds that pass while the rate limiter is consulted

(***************************************************************************)
(* Python values are written as their repr, so that False, 0.0 and ''      *)
(* stay different values.                                                  *)
(***************************************************************************)
PyNone == [none |-> "None"]

\* error_handler.py: max_retries of the three retry decorators
max_retries == 3

(***************************************************************************)
(* Response texts.  A text is a sequence of tokens: braces, a comma, a     *)
(* stretch of non-JSON prose, or one well-formed member "key": value.      *)
(***************************************************************************)
Members == {"is_sales_opportunity:true", "is_sales_opportunity:false",
            "confidence:0.9", "confidence:0.15",
            "organization_name:Acme", "organization_name:null"}

MemberKey(m) ==
    CASE m = "is_sales_opportunity:true"  -> "is_sales_opportunity"
      [] m = "is_sales_opportunity:false" -> "is_sales_opportunity"
      [] m = "confidence:0.9"             -> "confidence"
      [] m = "confidence:0.15"            -> "confidence"
      [] m = "organization_name:Acme"     -> "organization_name"
      [] m = "organization_name:null"     -> "organization_name"

\* json.loads maps JSON true/false/numbers to Python True/False/float
MemberVal(m) ==
    CASE m = "is_sales_opportunity:true"  -> "True"
      [] m = "is_sales_opportunity:false" -> "False"
      [] m = "confidence:0.9"             -> "0.9"
      [] m = "confidence:0.15"            -> "0.15"
      [] m = "organization_name:Acme"     -> "'Acme'"
      [] m = "organization_name:null"     -> "None"

Tokens == {"{", "}", ",", "x"} \cup Members

\* the tokens the exhaustive parse check enumerates
ParseTokens == {"{", "}", ",", "x", "is_sales_opportunity:true", "confidence:0.15"}

Texts == UNION {[1..n -> ParseTokens] : n \in 0..MaxLen}

\* str.find: 0-based index of the first occurrence, -1 when absent
Find(s, ch) ==
    IF \E i \in 1..Len(s) : s[i] = ch
    THEN (CHOOSE i \in 1..Len(s) : s[i] = ch /\ \A j \in 1..(i-1) : s[j] # ch) - 1
    ELSE -1

\* str.rfind: 0-based index of the last occurrence, -1 when absent
RFind(s, ch) ==
    IF \E i \in 1..Len(s) : s[i] = ch
    THEN (CHOOSE i \in 1..Len(s) : s[i] = ch /\ \A j \in (i+1)..Len(s) : s[j] # ch) - 1
    ELSE -1

\* content[start:end] with 0-based, end-exclusive indices
Slice(s, start, end) == SubSeq(s, start + 1, end)

\* json.loads succeeds on a flat object: { } or { member (, member)* }
IsJsonObject(js) ==
    /\ Len(js) >= 2
    /\ js[1] = "{"
    /\ js[Len(js)] = "}"
    /\ LET inner == SubSeq(js, 2, Len(js) - 1)
       IN  \/ Len(inner) = 0
           \/ /\ Len(inner) % 2 = 1
              /\ \A i \in 1..Len(inner) :
                    IF i % 2 = 1 THEN inner[i] \in Members ELSE inner[i] = ","

\* json.loads of a flat object: a dict; a repeated key keeps its last value
JsonLoads(js) ==
    LET idx  == {i \in 1..Len(js) : js[i] \in Members}
        keys == {MemberKey(js[i]) : i \in idx}
        last(k) == CHOOSE i \in idx : /\ MemberKey(js[i]) = k
                                      /\ \A j \in idx : MemberKey(js[j]) = k => j <= i
    IN  [k \in keys |-> MemberVal(js[last(k)])]

required_fields == {"is_sales_opportunity", "confidence", "opportunity_type",
                    "estimated_value", "currency", "urgency", "next_action",
                    "person_name", "organization_name", "key_points", "ai_generated"}

\* analyze_email.py:123-134, the value given to a field missing from the object
MissingFieldDefault(field) ==
    CASE field = "ai_generated"    -> "True"
      [] field = "key_points"      -> "[]"
      [] field = "estimated_value" -> "0"
      [] field = "currency"        -> "'DKK'"
      [] OTHER                     -> "''"

\* analyze_email.py:148-160, the result returned on json.JSONDecodeError
DecodeErrorDefault ==
    [is_sales_opportunity |-> "False",
     confidence           |-> "0.0",
     opportunity_type     |-> "'other'",
     estimated_value      |-> "0",
     currency             |-> "'DKK'",
     urgency              |-> "'low'",
     next_action          |-> "'no_action'",
     person_name          |-> "''",
     organization_name    |-> "''",
     key_points           |-> "[]",
     ai_generated         |-> "True"]

FillRequired(d) ==
    [f \in required_fields \cup DOMAIN d |->
        IF f \in DOMAIN d THEN d[f] ELSE MissingFieldDefault(f)]

Returned(v) == [raised |-> "", value |-> v]
Raised(exc) == [raised |-> exc, value |-> PyNone]

\* EmailAnalyzer._parse_ai_response
parse_ai_response(c) ==
    LET start == Find(c, "{")
        end   == RFind(c, "}") + 1
    IN  IF start = -1 \/ end = 0
        THEN Raised("ValueError")      \* not a JSONDecodeError: not caught at line 138
        ELSE LET json_str == Slice(c, start, end)
             IN  IF IsJsonObject(json_str)
                 THEN Returned(FillRequired(JsonLoads(json_str)))
                 ELSE Returned(DecodeErrorDefault)

\* one HTTP exchange with the classification service
HttpResponse(status, text) == [status_code |-> status, text |-> text]

\* EmailAnalyzer.analyze_email, the undecorated body: one attempt
analyze_email_body(response) ==
    IF response.status_code # 200
    THEN Raised("AIAnalysisError")
    ELSE parse_ai_response(response.text)

\* handle_ai_errors: up to max_retries attempts, responses[i] answers attempt i
RECURSIVE handle_ai_errors(_, _)
handle_ai_errors(responses, n) ==
    LET r == analyze_email_body(responses[n + 1])
    IN  IF r.raised = "" THEN r
        ELSE IF n = max_retries - 1 THEN Raised("AIAnalysisError")
        ELSE handle_ai_errors(responses, n + 1)

\* EmailAnalyzer.analyze_email as callers see it
analyze_email(responses) == handle_ai_errors(responses, 0)

\* AgentOrchestrator._analyze_email: any exception becomes None
orch_analyze_email(responses) ==
    LET r == analyze_email(responses)
    IN  IF r.raised = "" THEN r.value ELSE PyNone

ClassifyIdle ==
    /\ clsPc = "idle"
    /\ content = << >>
    /\ parsed = Raised("unset")
    /\ statuses = [i \in 1..max_retries |-> 0]
    /\ classified = PyNone

(***************************************************************************)
(* Orchestrator, store and CRM: values and pure functions                  *)
(***************************************************************************)
\* an email address, kept in the parts str.split("@") and split(".") yield
Address(local, labels) == [local |-> local, labels |-> labels]
Anna == Address("anna", <<"novonordisk", "com">>)
AnnaAsStored == Address("Anna", <<"novonordisk", "com">>)
Lars == Address("lars", <<"grundfos", "com">>)

\* str.capitalize() and str.lower() on the names that occur
Capitalize(str) ==
    CASE str = "novonordisk" -> "Novonordisk"
      [] str = "grundfos"    -> "Grundfos"
      [] OTHER               -> str

Lower(str) ==
    CASE str = "Novonordisk" -> "novonordisk"
      [] str = "Grundfos"    -> "grundfos"
      [] str = "Anna"        -> "anna"
      [] OTHER               -> str

LowerAddress(a) ==
    [local |-> Lower(a.local), labels |-> [i \in DOMAIN a.labels |-> Lower(a.labels[i])]]

Users == {"u1", "u2", "u3"}
Messages == {"msg1", "msg2"}

\* the primary recipient of each sent message; both belong to one thread
MessageTo == [m \in Messages |-> Anna]

\* a notification after the parsing of resource and clientState
\* (webhooks/microsoft.py:353-372); microsoft_user_id "" is a resource
\* that is not of the form Users/{id}/Messages/{id}
Notification(ms, user, msg) ==
    [microsoft_user_id |-> ms, user_id |-> user, message_id |-> msg]

\* the notifications that arrive: for u1, whose mailbox is m1, well-formed
\* ones, one with a foreign provider-user id and a malformed one; well-formed
\* ones for u2, whose integration is inactive, and u3, who has none
Notifications ==
    {Notification("m1", "u1", msg) : msg \in Messages}
        \cup {Notification("m2", "u1", "msg1"), Notification("", "u1", "msg1"),
              Notification("m2", "u2", "msg1"), Notification("m3", "u3", "msg1")}

NoNotification == [microsoft_user_id |-> "", user_id |-> "", message_id |-> ""]

NoIntegration == [present |-> FALSE, is_active |-> FALSE, microsoft_user_id |-> ""]
Integration(active, ms) == [present |-> TRUE, is_active |-> active, microsoft_user_id |-> ms]

\* Python truthiness, "x < 0.3" and its TypeError, on reprs
Truthy(v) == v \notin {"False", "None", "''", "0", "0.0", "[]"}
IsNumber(v) == v \in {"0", "0.0", "0.15", "0.3", "0.9", "True", "False"}
BelowThreshold(v) == v \in {"0", "0.0", "0.15", "False"}

OpenDealReason == "Open deal already exists for this person."

NoContact == [id |-> 0, times_equal |-> FALSE]

\* the dict contact_has_deals returns when there is no contact
EmptyDealCheck ==
    [contact_exists |-> FALSE, contact |-> NoContact, has_deals |-> FALSE,
     deal_created |-> FALSE, reason |-> "",
     contact_existed_before |-> FALSE, org_existed_before |-> FALSE]

\* mutant: the two flags are read in the other order
categorize_created_swapped(pd) ==
    IF pd.org_existed_before
    THEN IF pd.contact_existed_before
         THEN Returned("Created: Contact & company already exists")
         ELSE Returned("Created: Contact already exists")
    ELSE IF pd.contact_existed_before
         THEN Returned("Created: Company already exists")
         ELSE Returned("Created: New contact, company & deal created")

\* _categorize_webhook_outcome, lines 370-384: a deal was created
categorize_created(pd) ==
    IF pd.contact_existed_before
    THEN IF pd.org_existed_before
         THEN Returned("Created: Contact & company already exists")
         ELSE Returned("Created: Contact already exists")
    ELSE IF pd.org_existed_before
         THEN Returned("Created: Company already exists")
         ELSE Returned("Created: New contact, company & deal created")

\* _categorize_webhook_outcome, lines 358-397: the branches on pipedrive_result
categorize_resolution(pd) ==
    IF pd = PyNone THEN Returned("Error: Failed to process")
    ELSE IF ~pd.deal_created /\ pd.reason = OpenDealReason
         THEN Returned("Not created: Deal already exists")
    ELSE IF pd.deal_created THEN categorize_created(pd)
    ELSE IF pd.contact_exists
         THEN IF pd.contact # NoContact /\ pd.contact.times_equal
              THEN Returned("Created: New contact created (no company)")
              ELSE Returned("Not created: Deal already exists")
    ELSE Returned("Error: Failed to process")

\* mutant: the resolution is looked at before is_sales_opportunity
categorize_resolution_first(ai, pd) ==
    IF ~IsNumber(ai.confidence) THEN Raised("TypeError")
    ELSE IF BelowThreshold(ai.confidence) THEN Returned("Skipped: Low confidence score")
    ELSE IF pd # PyNone THEN categorize_resolution(pd)
    ELSE IF ~Truthy(ai.is_sales_opportunity) THEN Returned("Ignored: Not a sales deal")
    ELSE Returned("Error: Failed to process")

\* _categorize_webhook_outcome, lines 349-397: ai_result is not None;
\* "confidence < 0.3" raises TypeError when confidence is not a number
categorize_classified(ai, pd) ==
    IF ~IsNumber(ai.confidence) THEN Raised("TypeError")
    ELSE IF BelowThreshold(ai.confidence) THEN Returned("Skipped: Low confidence score")
    ELSE IF ~Truthy(ai.is_sales_opportunity) THEN Returned("Ignored: Not a sales deal")
    ELSE categorize_resolution(pd)

\* mutant: a missing classification is categorized by the resolution
categorize_null_by_resolution(ai, pd) ==
    IF ai = PyNone THEN categorize_resolution(pd) ELSE categorize_classified(ai, pd)

\* AgentOrchestrator._categorize_webhook_outcome
categorize_webhook_outcome(ai, pd) ==
    IF ai = PyNone THEN Returned("Error: Failed to process")
    ELSE categorize_classified(ai, pd)

NoResult == [success |-> FALSE, outcome |-> "", ai_result |-> PyNone, raised |-> ""]

\* AgentOrchestrator._create_error_result; outcome is f"Error: {error_message}"
create_error_result(error_message) ==
    [success |-> FALSE,
     outcome |-> CASE error_message = "AI analysis failed"
                        -> "Error: AI analysis failed"
                   [] OTHER
                        -> "Error: Processing failed: '<' not supported between instances",
     ai_result |-> PyNone,
     raised |-> ""]

\* mutant: the exception leaves process_email
process_email_reraise(exc) == [NoResult EXCEPT !.raised = exc]

\* process_email's "except Exception": the exception becomes an error result
process_email_except(exc) == create_error_result("Processing failed")

\* the result dict of the two successful returns of process_email
SuccessResult(ai, outcome) ==
    [success |-> TRUE, outcome |-> outcome, ai_result |-> ai, raised |-> ""]

\* mutant: the early return for non-opportunities is never taken
never_not_sales_opportunity(ai) == FALSE

\* process_email line 65: the email is not a sales opportunity
not_sales_opportunity(ai) == ~Truthy(ai.is_sales_opportunity)

\* MicrosoftWebhookManager.email_exists_in_database; a failed lookup is False
email_exists_in_database(user_id, microsoft_email_id, lookupFails) ==
    /\ ~lookupFails
    /\ \E i \in 1..Len(emails) :
          /\ emails[i].user_id = user_id
          /\ emails[i].microsoft_email_id = microsoft_email_id

\* mutant: the received provider-user id is not compared with the stored one
verify_integration_only(supabase_user_id, microsoft_user_id, lookupFails) ==
    LET row == integrations[supabase_user_id]
    IN  /\ ~lookupFails
        /\ row.present /\ row.is_active
        /\ row.microsoft_user_id # ""

\* MicrosoftWebhookManager.verify_microsoft_user_mapping; a failed lookup is False
verify_microsoft_user_mapping(supabase_user_id, microsoft_user_id, lookupFails) ==
    LET row == integrations[supabase_user_id]
    IN  /\ ~lookupFails
        /\ row.present /\ row.is_active
        /\ row.microsoft_user_id # ""
        /\ row.microsoft_user_id = microsoft_user_id

\* PipedriveManager.search_contact_by_email: the values it can return; a
\* failed call is None, several exact matches come in the API's order
search_contact_by_email(email, callOk) ==
    LET matches == {p \in persons : LowerAddress(p.email) = LowerAddress(email)}
    IN  IF callOk /\ matches # {} THEN matches ELSE {NoContact}

\* PipedriveManager.get_contact_deals, as len(deals) > 0; a failed call is []
contact_has_any_deal(contact_id, callOk) ==
    callOk /\ \E d \in deals : d.person_id = contact_id

\* mutant: the open-deal request never reports a deal
has_open_deal_blind(contact_id, callOk) == FALSE

\* PipedriveManager.has_open_deal; a failed call is False
pipedrive_has_open_deal(contact_id, callOk) ==
    callOk /\ \E d \in deals : d.person_id = contact_id /\ d.status = "open"

\* PipedriveManager.search_organization_by_name; a failed call is None
search_organization_by_name(name, callOk) ==
    callOk /\ \E o \in organizations : Lower(o.name) = Lower(name)

\* orchestrator.py:184-185: domain label of the recipient, capitalized
organization_name_of(to) == Capitalize(to.labels[1])

NextId(rows) == Cardinality(rows) + 1

\* the sample answers of the classification service used by the pipeline
SampleTexts ==
    {<<"{", "is_sales_opportunity:true", ",", "confidence:0.9", "}">>,
     <<"{", "is_sales_opportunity:true", ",", "confidence:0.15", "}">>,
     <<"{", "is_sales_opportunity:false", ",", "confidence:0.9", "}">>,
     <<"{", "is_sales_opportunity:true", "}">>,
     <<"{", "is_sales_opportunity:true", ",", "confidence:0.9", ",",
       "organization_name:Acme", "}">>,
     <<"{", "is_sales_opportunity:true", ",", "confidence:0.9", ",",
       "organization_name:null", "}">>,
     <<"{", "x", "}">>,
     <<"x">>}

SampleResponses ==
    {HttpResponse(200, t) : t \in SampleTexts} \cup {HttpResponse(500, << >>)}

(***************************************************************************)
(* Provider clients: _make_api_call, _refresh_access_token and the retry   *)
(* decorators around the domain operations                                 *)
(***************************************************************************)
\* the decorated domain operations and what each returns from its own
\* "except Exception" handler
Operations ==
    {[provider |-> "pipedrive", name |-> "search_contact_by_email",     fallback |-> "None"],
     [provider |-> "pipedrive", name |-> "get_contact_deals",           fallback |-> "[]"],
     [provider |-> "pipedrive", name |-> "create_contact",              fallback |-> "None"],
     [provider |-> "pipedrive", name |-> "search_organization_by_name", fallback |-> "None"],
     [provider |-> "pipedrive", name |-> "create_organization",         fallback |-> "None"],
     [provider |-> "pipedrive", name |-> "create_deal",                 fallback |-> "None"],
     [provider |-> "pipedrive", name |-> "has_open_deal",               fallback |-> "False"],
     [provider |-> "pipedrive", name |-> "log_note",                    fallback |-> "None"],
     [provider |-> "microsoft", name |-> "get_user_info",               fallback |-> "None"],
     [provider |-> "microsoft", name |-> "get_email",                   fallback |-> "None"],
     [provider |-> "microsoft", name |-> "get_recent_emails",           fallback |-> "[]"],
     [provider |-> "microsoft", name |-> "delete_webhook_subscription", fallback |-> "False"]}

\* status codes the provider API answers with
StatusCodes == {200, 201, 401, 500}

\* a secret as the integrations record holds it
Encrypted(t) == [form |-> "encrypted", tok |-> t]
Plaintext(t) == [form |-> "plaintext", tok |-> t]

\* what _refresh_access_token writes to the integrations record:
\* pipedrive_manager.py:180-185 stores self.tokens as they are,
\* microsoft_manager.py:163-174 stores token_encryption.encrypt_token(...)
PersistedPair(provider, pair) ==
    IF provider = "microsoft"
    THEN [access_token  |-> Encrypted(pair.access_token),
          refresh_token |-> Encrypted(pair.refresh_token)]
    ELSE [access_token  |-> Plaintext(pair.access_token),
          refresh_token |-> Plaintext(pair.refresh_token)]

\* the pair after a successful token response: data["access_token"], and
\* data["refresh_token"] when the response carries one
RefreshedPair(pair, gen, rotates) ==
    [access_token  |-> gen,
     refresh_token |-> IF rotates THEN gen ELSE pair.refresh_token]

\* _get_headers: the bearer token of the request about to be sent
get_headers == tokens.access_token

\* mutant: the domain operation lets the exception reach the decorator
domain_operation_reraising(callOutcome) ==
    IF callOutcome = "raised" THEN "raised" ELSE "value"

\* the domain operation's try/except around _make_api_call: an exception of
\* the call becomes the operation's fallback return value
domain_operation(callOutcome) ==
    IF callOutcome = "raised" THEN "fallback" ELSE "value"

\* handle_pipedrive_errors / handle_microsoft_errors wrapper around one
\* attempt of the operation whose _make_api_call ended with callOutcome
AfterCall(callOutcome) ==
    LET outcome == domain_operation(callOutcome)
    IN  IF outcome # "raised"
        THEN /\ opResult' = outcome
             /\ callPc' = "done"
             /\ attempt' = attempt
        ELSE IF attempt = max_retries - 1
        THEN /\ opResult' = "raised"
             /\ callPc' = "done"
             /\ attempt' = attempt
        ELSE /\ opResult' = "pending"
             /\ callPc' = "start"
             /\ attempt' = attempt + 1

CallIdle ==
    /\ op = [provider |-> "none", name |-> "none", fallback |-> "None"]
    /\ callPc = "idle"
    /\ attempt = 0
    /\ tokens = [access_token |-> 0, refresh_token |-> 0]
    /\ stored = PersistedPair("microsoft", tokens)
    /\ issued = 0
    /\ requests = << >>
    /\ refreshes = 0
    /\ refreshFailed = FALSE
    /\ opResult = "pending"

\* _make_api_call up to the first response (lines 195-202 and 212-217)
SendRequest(status) ==
    /\ callPc = "start"
    /\ requests' = Append(requests, [token |-> get_headers, status_code |-> status])
    /\ IF status = 401
       THEN /\ callPc' = "refresh"
            /\ UNCHANGED <<attempt, opResult>>
       ELSE AfterCall(IF status \in {200, 201} THEN "returned" ELSE "raised")
    /\ UNCHANGED <<op, tokens, stored, issued, refreshes, refreshFailed>>
    /\ UNCHANGED besidesCall

\* _refresh_access_token under handle_token_refresh_errors
RefreshAccessToken(outcome, rotates) ==
    /\ callPc = "refresh"
    /\ IF tokens.refresh_token = 0
       THEN \* "No refresh token available": raised before any request
            /\ refreshFailed' = TRUE
            /\ AfterCall("raised")
            /\ UNCHANGED <<tokens, stored, issued, refreshes>>
       ELSE /\ refreshes' = refreshes + 1
            /\ CASE outcome = "token_error" ->
                      \* response.status_code != 200
                      /\ refreshFailed' = TRUE
                      /\ AfterCall("raised")
                      /\ UNCHANGED <<tokens, stored, issued>>
                 [] outcome = "persist_error" ->
                      \* self.tokens already updated when the store update raises
                      /\ issued' = issued + 1
                      /\ tokens' = RefreshedPair(tokens, issued + 1, rotates)
                      /\ refreshFailed' = TRUE
                      /\ AfterCall("raised")
                      /\ UNCHANGED stored
                 [] outcome = "ok" ->
                      /\ issued' = issued + 1
                      /\ tokens' = RefreshedPair(tokens, issued + 1, rotates)
                      /\ stored' = PersistedPair(op.provider, tokens')
                      /\ callPc' = "retry"
                      /\ UNCHANGED <<refreshFailed, attempt, opResult>>
    /\ UNCHANGED <<op, requests>>
    /\ UNCHANGED besidesCall

\* mutant: the retry reuses the headers built before the refresh
stale_retry_headers == requests[1].token

\* the bearer token of the retried request (lines 208-209)
retry_headers == tokens.access_token

\* _make_api_call after the refresh: the one retry (lines 207-217)
RetryRequest(status) ==
    /\ callPc = "retry"
    /\ requests' = Append(requests, [token |-> retry_headers, status_code |-> status])
    /\ AfterCall(IF status \in {200, 201} THEN "returned" ELSE "raised")
    /\ UNCHANGED <<op, tokens, stored, issued, refreshes, refreshFailed>>
    /\ UNCHANGED besidesCall

NextCall ==
    \/ \E status \in StatusCodes : SendRequest(status)
    \/ \E outcome \in {"ok", "token_error", "persist_error"}, rotates \in BOOLEAN :
          RefreshAccessToken(outcome, rotates)
    \/ \E status \in StatusCodes : RetryRequest(status)

(***************************************************************************)
(* Spec: webhook ingestion (process_email_webhook) handling notifications  *)
(* one after the other, each driving AgentOrchestrator.process_email       *)
(***************************************************************************)
\* _log_email_note was not called
NoNote == [summary |-> "none", posted |-> "not_sent", notes |-> {}]

\* the summary generate_danish_summary returns: the service's text, or the
\* fallback sentence of its except branch
generate_danish_summary(summaryOk) == IF summaryOk THEN "ai" ELSE "fallback"

\* AgentOrchestrator._log_email_note: the summary, then the note content
\* formatted from the email's fields (email_data['received_at'] raises
\* KeyError when the key is absent), then log_note; every exception ends
\* in the handler at line 338
log_email_note(ed, deal_id, summaryOk, noteOk) ==
    LET summary == generate_danish_summary(summaryOk)
    IN  IF "received_at" \notin DOMAIN ed
        THEN [summary |-> summary, posted |-> "not_sent", notes |-> {}]
        ELSE [summary |-> summary,
              posted |-> IF noteOk THEN "ok" ELSE "failed",
              notes |-> IF noteOk THEN {[deal_id |-> deal_id, summary |-> summary]}
                        ELSE {}]

OrchIdle ==
    /\ email_data = [id |-> "", to |-> Lars, user_id |-> ""]
    /\ ai_result = PyNone
    /\ deal_check = EmptyDealCheck
    /\ contact_existed = FALSE
    /\ has_open_deal = FALSE
    /\ org_exists = FALSE
    /\ result = NoResult
    /\ audit = "none"
    /\ crmCalled = FALSE
    /\ note_log = NoNote

\* the CRM workspace before the first notification: a bystander with an open
\* deal, and the recipient absent, present without deal, with a won deal or
\* with an open deal
LarsPerson == [id |-> 1, email |-> Lars, org_id |-> 1]
AnnaPerson == [id |-> 2, email |-> AnnaAsStored, org_id |-> 2]
InitialCRMs ==
    LET org1 == [id |-> 1, name |-> "Grundfos"]
        org2 == [id |-> 2, name |-> "Novonordisk"]
        deal1 == [id |-> 1, person_id |-> 1, status |-> "open"]
    IN  {[persons |-> {LarsPerson}, organizations |-> {org1}, deals |-> {deal1}],
         [persons |-> {LarsPerson, AnnaPerson}, organizations |-> {org1, org2},
          deals |-> {deal1}],
         [persons |-> {LarsPerson, AnnaPerson}, organizations |-> {org1, org2},
          deals |-> {deal1, [id |-> 2, person_id |-> 2, status |-> "won"]}],
         [persons |-> {LarsPerson, AnnaPerson}, organizations |-> {org1, org2},
          deals |-> {deal1, [id |-> 2, person_id |-> 2, status |-> "open"]}]}

(***************************************************************************)
(* SpecIngest: the webhook endpoint (handle_email_webhook) and the loop of *)
(* process_email_webhook over the notifications of one request             *)
(***************************************************************************)
\* rows of the webhook_subscriptions table
Subscriptions ==
    {[subscription_id |-> "sub1", user_id |-> "u1", is_active |-> TRUE],
     [subscription_id |-> "sub0", user_id |-> "u1", is_active |-> FALSE],
     [subscription_id |-> "sub2", user_id |-> "u2", is_active |-> TRUE]}

\* WebhookValidator.validate_subscription_exists; a failed lookup is False
validate_subscription_exists(subscription_id, user_id, lookupFails) ==
    /\ ~lookupFails
    /\ \E row \in Subscriptions :
          /\ row.subscription_id = subscription_id
          /\ row.user_id = user_id
          /\ row.is_active

\* WebhookValidator.extract_user_id_from_client_state: "" is a client state
\* that does not start with "user_"
extract_user_id_from_client_state(client_state) == client_state

\* one element of value: subscriptionId, the user of clientState and the
\* provider-user id of resource ("" = a field that does not parse)
PayloadItem(sub, user, ms) ==
    [subscriptionId |-> sub, clientState |-> user, microsoft_user_id |-> ms]

PayloadItems ==
    {PayloadItem(sub, user, ms) :
        sub \in {"sub1", "sub0", "subX", ""}, user \in {"u1", "u2", ""},
        ms \in {"m1", ""}}

Payloads == UNION {[1..n -> PayloadItems] : n \in 1..MaxPayload}

\* WebhookValidator.validate_webhook_payload: value is a non-empty list
\* whose first item has a subscriptionId
validate_webhook_payload(value) ==
    /\ Len(value) > 0
    /\ value[1].subscriptionId # ""

\* the integration records the endpoint's store holds
InitialIntegrations ==
    [u \in Users |->
        CASE u = "u1" -> Integration(TRUE, "m1")
          [] u = "u2" -> Integration(FALSE, "m2")
          [] OTHER    -> NoIntegration]

IngestIdle ==
    /\ ingPc = "off"
    /\ environment = "development"
    /\ body = "empty"
    /\ payload = << >>
    /\ cursor = 0
    /\ handedOver = {}
    /\ httpStatus = 0

(***************************************************************************)
(* SpecCategorize: _categorize_webhook_outcome applied to its arguments    *)
(***************************************************************************)
\* ai_result arguments: None, or the two fields the function reads
CategorizeAiResults ==
    {PyNone} \cup
    [is_sales_opportunity : {"True", "False", "''"},
     confidence : {"0.9", "0.3", "0.15", "0.0", "''"}]

\* pipedrive_result arguments: None, or what _handle_pipedrive_operations
\* builds; reason "" is a dict without the key
CategorizePipedriveResults ==
    {PyNone} \cup
    [contact_exists : BOOLEAN,
     contact : {NoContact, [id |-> 2, times_equal |-> TRUE],
                [id |-> 2, times_equal |-> FALSE]},
     has_deals : BOOLEAN,
     deal_created : BOOLEAN,
     reason : {"", OpenDealReason},
     contact_existed_before : BOOLEAN,
     org_existed_before : BOOLEAN]

CategorizeIdle ==
    /\ catPc = "off"
    /\ cat_ai = PyNone
    /\ cat_pd = PyNone
    /\ cat_outcome = Raised("unset")

(***************************************************************************)
(* SpecCredential: the functions that read tokens from the integrations    *)
(* table                                                                   *)
(***************************************************************************)
\* a stored value that decrypt_token cannot decrypt (damaged, or encrypted
\* under another key)
Undecryptable(t) == [form |-> "undecryptable", tok |-> t]

\* a decrypted token, and the text a decryption without integrity check
\* yields for a value that is no ciphertext
Clear(t) == [form |-> "clear", tok |-> t]
Garbage == [form |-> "garbage", tok |-> 0]

StoredSecrets ==
    {Encrypted(t) : t \in {1, 2}} \cup {Undecryptable(t) : t \in {1, 2}}
        \cup {Plaintext(t) : t \in {1, 2}}

\* TokenEncryption.decrypt_token: base64-decode, XOR with the derived key,
\* decode as UTF-8; a value that is no ciphertext of this key either raises
\* or (garbles) decodes to some other text
decrypt_token(secret, garbles) ==
    IF secret.form = "encrypted" THEN Returned(Clear(secret.tok))
    ELSE IF garbles THEN Returned(Garbage)
    ELSE Raised("Exception")

\* TokenEncryption.decrypt_dict for one field: a falsy value is left alone,
\* a value whose decryption raises is kept as it is
decrypt_dict_field(secret, garbles) ==
    IF secret = PyNone THEN secret
    ELSE IF decrypt_token(secret, garbles).raised # "" THEN secret
    ELSE decrypt_token(secret, garbles).value

\* _load_tokens of PipedriveManager and MicrosoftManager (production mode):
\* any exception of decrypt_token becomes the manager's error
load_tokens(row, garbles) ==
    LET access_token == decrypt_token(row.access_token, garbles)
        refresh_token == IF row.refresh_token = PyNone THEN Returned(PyNone)
                         ELSE decrypt_token(row.refresh_token, garbles)
    IN  IF access_token.raised # "" \/ refresh_token.raised # ""
        THEN Raised("Failed to load tokens")
        ELSE Returned([access_token |-> access_token.value,
                       refresh_token |-> refresh_token.value])

\* SupabaseManager.get_integration / get_user_integrations
get_integration(row, garbles) ==
    Returned([access_token |-> decrypt_dict_field(row.access_token, garbles),
              refresh_token |-> decrypt_dict_field(row.refresh_token, garbles)])

ReadPaths == {"PipedriveManager._load_tokens", "MicrosoftManager._load_tokens",
              "SupabaseManager.get_integration",
              "SupabaseManager.get_user_integrations"}

CredentialIdle ==
    /\ credPc = "off"
    /\ credPath = "none"
    /\ credRow = [access_token |-> PyNone, refresh_token |-> PyNone]
    /\ credFailed = FALSE
    /\ credResult = Raised("unset")

(***************************************************************************)
(* SpecRefresh: calls of _make_api_call running concurrently for one       *)
(* (user, provider), each in its own manager, interleaved at the awaits    *)
(***************************************************************************)
Callers == {"c1", "c2"}

NoPair == [access_token |-> 0, refresh_token |-> 0]

RefreshIdle ==
    /\ rProvider = "none"
    /\ rPc = [c \in Callers |-> "off"]
    /\ rTokens = [c \in Callers |-> NoPair]
    /\ rStored = PersistedPair("microsoft", NoPair)
    /\ rIssued = 0
    /\ rInflight = [c \in Callers |-> NoPair]
    /\ rRefreshLog = << >>
    /\ rResult = [c \in Callers |-> "pending"]

(***************************************************************************)
(* SpecResolve: two invocations of _handle_pipedrive_operations for the    *)
(* same recipient, in one event loop or in two workers, interleaved at     *)
(* the awaits of the CRM requests                                          *)
(***************************************************************************)
Workers == {"w1", "w2"}

NoLocals == [contact |-> 0, contact_existed |-> FALSE, has_open_deal |-> FALSE,
             org_exists |-> FALSE]

ResolveIdle ==
    /\ wPc = [w \in Workers |-> "off"]
    /\ wLocal = [w \in Workers |-> NoLocals]
    /\ wResult = [w \in Workers |-> "pending"]

(***************************************************************************)
(* SpecRateLimit: RateLimiter.check_rate_limit called again and again for  *)
(* one user and one operation while the clock advances                     *)
(***************************************************************************)
RateLimitConfig(max_requests, window_seconds) ==
    [max_requests |-> max_requests, window_seconds |-> window_seconds]

\* RateLimiter._initialize_rate_limits
rate_limits ==
    [o \in {"ai_analysis_per_minute", "ai_analysis_per_hour", "ai_analysis_per_day",
            "webhook_processing_per_minute", "webhook_processing_per_hour",
            "pipedrive_api_per_minute", "pipedrive_api_per_hour",
            "global_requests_per_minute", "global_requests_per_hour"} |->
        CASE o = "ai_analysis_per_minute"        -> RateLimitConfig(10, 60)
          [] o = "ai_analysis_per_hour"          -> RateLimitConfig(100, 3600)
          [] o = "ai_analysis_per_day"           -> RateLimitConfig(1000, 86400)
          [] o = "webhook_processing_per_minute" -> RateLimitConfig(30, 60)
          [] o = "webhook_processing_per_hour"   -> RateLimitConfig(300, 3600)
          [] o = "pipedrive_api_per_minute"      -> RateLimitConfig(20, 60)
          [] o = "pipedrive_api_per_hour"        -> RateLimitConfig(200, 3600)
          [] o = "global_requests_per_minute"    -> RateLimitConfig(100, 60)
          [] o = "global_requests_per_hour"      -> RateLimitConfig(1000, 3600)]

\* the operations the checks are made for
CheckedOperations == {"ai_analysis_per_minute", "pipedrive_api_per_minute",
                      "crm_calls_per_minute"}

Seconds == 0..MaxClock

LimitIdle ==
    /\ rlOperation = "none"
    /\ rlClock = 0
    /\ rlWindows = [t \in Seconds |-> 0]
    /\ rlAdmitted = [t \in Seconds |-> 0]
    /\ rlFaults = 0
    /\ rlReturned = "none"

PipelineIdle ==
    /\ pc = "off"
    /\ handled = 0
    /\ faults = 0
    /\ notification = NoNotification
    /\ disposition = "none"
    /\ integrations = InitialIntegrations
    /\ emails = << >>
    /\ activity_logs = << >>
    /\ persons = {} /\ organizations = {} /\ deals = {} /\ notes = {}
    /\ OrchIdle

\* every specification but the named one is at rest
IdleExcept(spec) ==
    /\ IF spec \in {"classify", "process"} THEN TRUE ELSE ClassifyIdle
    /\ IF spec \in {"call", "fetch", "reload"} THEN TRUE ELSE CallIdle
    /\ IF spec \in {"pipeline", "resolve", "process", "shared"} THEN TRUE ELSE PipelineIdle
    /\ IF spec = "ingest" THEN TRUE ELSE IngestIdle
    /\ IF spec = "categorize" THEN TRUE ELSE CategorizeIdle
    /\ IF spec \in {"credential", "fetch", "reload"} THEN TRUE ELSE CredentialIdle
    /\ IF spec = "refresh" THEN TRUE ELSE RefreshIdle
    /\ IF spec = "resolve" THEN TRUE ELSE ResolveIdle
    /\ IF spec = "limit" THEN TRUE ELSE LimitIdle

Init ==
    /\ IdleExcept("pipeline")
    /\ pc = "idle"
    /\ handled = 0
    /\ faults = 0
    /\ notification = NoNotification
    /\ disposition = "none"
    /\ integrations = InitialIntegrations
    /\ emails = << >>
    /\ activity_logs = << >>
    /\ \E crm \in InitialCRMs :
          /\ persons = crm.persons
          /\ organizations = crm.organizations
          /\ deals = crm.deals
    /\ notes = {}
    /\ OrchIdle

\* count the calls that fail in a step; at most MaxFaults fail in a behaviour
Failing(flags) ==
    LET n == Cardinality({i \in DOMAIN flags : ~flags[i]})
    IN  /\ faults + n <= MaxFaults
        /\ faults' = faults + n

\* mutant: a failure in the handling of a notification leaves the loop
FinishAborting(n, how) ==
    /\ pc' = IF how \in {"ai_processed", "skipped_duplicate"} THEN "idle" ELSE "aborted"
    /\ handled' = handled + 1
    /\ disposition' = how
    /\ email_data' = [id |-> "", to |-> Lars, user_id |-> ""]
    /\ ai_result' = PyNone
    /\ deal_check' = EmptyDealCheck
    /\ contact_existed' = FALSE
    /\ has_open_deal' = FALSE
    /\ org_exists' = FALSE
    /\ result' = NoResult
    /\ audit' = "none"
    /\ crmCalled' = FALSE
    /\ note_log' = NoNote

\* the handling of the current notification ends ("continue" or loop end)
Finish(n, how) ==
    /\ pc' = "idle"
    /\ handled' = handled + 1
    /\ disposition' = how
    /\ email_data' = [id |-> "", to |-> Lars, user_id |-> ""]
    /\ ai_result' = PyNone
    /\ deal_check' = EmptyDealCheck
    /\ contact_existed' = FALSE
    /\ has_open_deal' = FALSE
    /\ org_exists' = FALSE
    /\ result' = NoResult
    /\ audit' = "none"
    /\ crmCalled' = FALSE
    /\ note_log' = NoNote

\* supabase_manager.log_activity under log_activity_to_supabase: the row is
\* appended, or the store fails and the failure is swallowed
LogActivity(outcome, storeOk) ==
    IF storeOk
    THEN /\ activity_logs' = Append(activity_logs,
                 [user_id |-> email_data.user_id, message_id |-> email_data.id])
         /\ audit' = "written"
    ELSE /\ audit' = "failed"
         /\ UNCHANGED activity_logs

\* process_email_webhook, lines 352-392: parse the notification, skip it
\* when invalid or already recorded
ReceiveNotification(n, lookupFails) ==
    /\ pc = "idle"
    /\ Failing(<<~lookupFails>>)
    /\ handled < MaxNotifications
    /\ notification' = n
    /\ IF n.microsoft_user_id = ""
       THEN Finish(n, "invalid")
       ELSE IF email_exists_in_database(n.user_id, n.message_id, lookupFails)
       THEN Finish(n, "skipped_duplicate")
       ELSE /\ pc' = "verify"
            /\ UNCHANGED <<handled, disposition, orchVars>>
    /\ UNCHANGED <<storeVars, crmVars, besidesPipeline>>

\* lines 394-401
VerifyMapping(lookupFails) ==
    /\ pc = "verify"
    /\ Failing(<<~lookupFails>>)
    /\ IF verify_microsoft_user_mapping(notification.user_id,
                                        notification.microsoft_user_id, lookupFails)
       THEN /\ pc' = "fetch"
            /\ UNCHANGED <<handled, disposition, orchVars>>
       ELSE Finish(notification, "mapping_failed")
    /\ UNCHANGED <<notification, storeVars, crmVars, besidesPipeline>>

\* lines 403-425 and 467-477: fetch_email_content and the email data built
\* from the message
FetchEmailContent(fetchOk) ==
    /\ pc = "fetch"
    /\ Failing(<<fetchOk>>)
    /\ IF fetchOk
       THEN /\ pc' = "store"
            /\ email_data' = [id |-> notification.message_id,
                              to |-> MessageTo[notification.message_id],
                              user_id |-> notification.user_id]
            /\ UNCHANGED <<handled, disposition, ai_result, deal_check,
                           contact_existed, has_open_deal, org_exists, result,
                           audit, crmCalled, note_log>>
       ELSE Finish(notification, "fetch_failed")
    /\ UNCHANGED <<notification, storeVars, crmVars, besidesPipeline>>

\* lines 427-462 and 540-547: insert the row with processing_status "stored"
StoreEmail(insertOk) ==
    /\ pc = "store"
    /\ Failing(<<insertOk>>)
    /\ IF insertOk
       THEN /\ emails' = Append(emails,
                 [user_id |-> notification.user_id,
                  microsoft_email_id |-> notification.message_id,
                  processing_status |-> "stored"])
            /\ pc' = "construct"
            /\ UNCHANGED <<handled, disposition, orchVars>>
       ELSE /\ Finish(notification, "store_failed")
            /\ UNCHANGED emails
    /\ UNCHANGED <<notification, integrations, activity_logs, crmVars,
                   besidesPipeline>>

\* line 485: AgentOrchestrator(user_id); PipedriveManager._load_tokens raises
\* when the user's CRM tokens cannot be loaded
ConstructOrchestrator(tokensLoaded) ==
    /\ pc = "construct"
    /\ Failing(<<tokensLoaded>>)
    /\ pc' = IF tokensLoaded THEN "analyze" ELSE "ai_error"
    /\ UNCHANGED <<handled, notification, disposition, storeVars, crmVars, orchVars, besidesPipeline>>

\* process_email, lines 57-93: classification and the two early returns
AnalyzeEmail(responses, storeOk) ==
    /\ pc = "analyze"
    /\ Failing(<<storeOk>>)
    /\ ai_result' = orch_analyze_email(responses)
    /\ IF ai_result' = PyNone
       THEN /\ result' = create_error_result("AI analysis failed")
            /\ pc' = "returned"
            /\ UNCHANGED <<activity_logs, audit>>
       ELSE IF not_sales_opportunity(ai_result')
       THEN /\ LogActivity("Ignored: Not a sales deal", storeOk)
            /\ result' = SuccessResult(ai_result', "Ignored: Not a sales deal")
            /\ pc' = "returned"
       ELSE /\ pc' = "contact_has_deals"
            /\ UNCHANGED <<activity_logs, audit, result>>
    /\ UNCHANGED <<handled, notification, disposition, integrations, emails, crmVars, email_data, deal_check,
                   contact_existed, has_open_deal, org_exists, crmCalled, note_log,
                   besidesPipeline>>

\* _handle_pipedrive_operations, lines 169-174: contact_has_deals
ContactHasDeals(searchOk, dealsOk, timesEqual) ==
    /\ pc = "contact_has_deals"
    /\ Failing(<<searchOk, dealsOk>>)
    /\ \E found \in search_contact_by_email(email_data.to, searchOk) :
          IF found = NoContact
          THEN /\ deal_check' = EmptyDealCheck
               /\ contact_existed' = FALSE
               /\ crmCalled' = TRUE
          ELSE /\ deal_check' =
                     [EmptyDealCheck EXCEPT
                        !.contact_exists = TRUE,
                        !.contact = [id |-> found.id, times_equal |-> timesEqual],
                        !.has_deals = contact_has_any_deal(found.id, dealsOk)]
               /\ contact_existed' = TRUE
               /\ crmCalled' = TRUE
    /\ pc' = "has_open_deal"
    /\ UNCHANGED <<handled, notification, disposition, storeVars, crmVars, email_data, ai_result, has_open_deal,
                   org_exists, result, audit, note_log, besidesPipeline>>

\* lines 176-181
CheckOpenDeal(callOk) ==
    /\ pc = "has_open_deal"
    /\ Failing(<<callOk>>)
    /\ IF deal_check.contact # NoContact
       THEN /\ has_open_deal' = pipedrive_has_open_deal(deal_check.contact.id, callOk)
            /\ crmCalled' = TRUE
       ELSE /\ has_open_deal' = FALSE
            /\ UNCHANGED crmCalled
    /\ pc' = "search_organization"
    /\ UNCHANGED <<handled, notification, disposition, storeVars, crmVars, email_data, ai_result, deal_check,
                   contact_existed, org_exists, result, audit, note_log, besidesPipeline>>

\* lines 183-193
SearchOrganization(callOk) ==
    /\ pc = "search_organization"
    /\ Failing(<<callOk>>)
    /\ IF organization_name_of(email_data.to) # ""
       THEN /\ org_exists' =
                 search_organization_by_name(organization_name_of(email_data.to), callOk)
            /\ crmCalled' = TRUE
       ELSE /\ org_exists' = FALSE
            /\ UNCHANGED crmCalled
    /\ pc' = "create_contact"
    /\ UNCHANGED <<handled, notification, disposition, storeVars, crmVars, email_data, ai_result, deal_check,
                   contact_existed, has_open_deal, result, audit, note_log, besidesPipeline>>

\* lines 195-210 with PipedriveManager.create_contact: find or create the
\* organization, then create the person
CreateContact(searchOk, orgOk, personOk, timesEqual) ==
    /\ pc = "create_contact"
    /\ Failing(<<searchOk, orgOk, personOk>>)
    /\ IF contact_existed
       THEN UNCHANGED <<persons, organizations, deal_check, crmCalled>>
       ELSE LET name == organization_name_of(email_data.to)
                known == {o \in organizations : Lower(o.name) = Lower(name)}
                found == searchOk /\ known # {}
                newOrg == [id |-> NextId(organizations), name |-> name]
                org_id == IF found THEN (CHOOSE o \in known : TRUE).id
                          ELSE IF orgOk THEN newOrg.id ELSE 0
                person == [id |-> NextId(persons), email |-> email_data.to,
                           org_id |-> org_id]
            IN  /\ organizations' = IF ~found /\ orgOk
                                    THEN organizations \cup {newOrg}
                                    ELSE organizations
                /\ crmCalled' = TRUE
                /\ IF personOk
                   THEN /\ persons' = persons \cup {person}
                        /\ deal_check' =
                             [deal_check EXCEPT
                                !.contact = [id |-> person.id, times_equal |-> timesEqual],
                                !.contact_exists = TRUE]
                   ELSE UNCHANGED <<persons, deal_check>>
    /\ pc' = "create_deal"
    /\ UNCHANGED <<handled, notification, disposition, storeVars, deals, notes, email_data, ai_result,
                   contact_existed, has_open_deal, org_exists, result, audit, note_log,
                   besidesPipeline>>

\* lines 212-226 with _create_deal_if_needed and _log_email_note
CreateDealIfNeeded(openOk, dealOk, summaryOk, noteOk) ==
    /\ pc = "create_deal"
    /\ Failing(<<openOk, dealOk, summaryOk, noteOk>>)
    /\ LET contact == deal_check.contact
           before == [deal_check EXCEPT !.contact_existed_before = contact_existed,
                                        !.org_existed_before = org_exists]
           deal == [id |-> NextId(deals), person_id |-> contact.id, status |-> "open"]
       IN  IF has_open_deal
           THEN /\ deal_check' = [before EXCEPT !.deal_created = FALSE,
                                                !.reason = OpenDealReason]
                /\ UNCHANGED <<deals, notes, crmCalled, note_log>>
           ELSE IF contact = NoContact
           THEN /\ deal_check' = [before EXCEPT !.deal_created = FALSE]
                /\ UNCHANGED <<deals, notes, crmCalled, note_log>>
           ELSE IF pipedrive_has_open_deal(contact.id, openOk)
           THEN /\ deal_check' = [before EXCEPT !.deal_created = FALSE,
                                                !.reason = OpenDealReason]
                /\ crmCalled' = TRUE
                /\ UNCHANGED <<deals, notes, note_log>>
           ELSE IF dealOk
           THEN /\ deals' = deals \cup {deal}
                /\ note_log' = log_email_note(email_data, deal.id, summaryOk, noteOk)
                /\ notes' = notes \cup note_log'.notes
                /\ crmCalled' = TRUE
                /\ deal_check' = [before EXCEPT !.deal_created = TRUE,
                                                !.has_deals = TRUE]
           ELSE /\ deal_check' = [before EXCEPT !.deal_created = FALSE]
                /\ crmCalled' = TRUE
                /\ UNCHANGED <<deals, notes, note_log>>
    /\ pc' = "categorize"
    /\ UNCHANGED <<handled, notification, disposition, storeVars, persons, organizations, email_data, ai_result,
                   contact_existed, has_open_deal, org_exists, result, audit,
                   besidesPipeline>>

\* process_email, lines 95-141: categorize, log, return; an exception of the
\* categorization reaches the handler at line 128
CategorizeAndLog(storeOk) ==
    /\ pc = "categorize"
    /\ Failing(<<storeOk>>)
    /\ LET c == categorize_webhook_outcome(ai_result, deal_check)
       IN  IF c.raised # ""
           THEN /\ result' = process_email_except(c.raised)
                /\ UNCHANGED <<activity_logs, audit>>
           ELSE /\ LogActivity(c.value, storeOk)
                /\ result' = SuccessResult(ai_result, c.value)
    /\ pc' = "returned"
    /\ UNCHANGED <<handled, notification, disposition, integrations, emails, crmVars, email_data, ai_result,
                   deal_check, contact_existed, has_open_deal, org_exists, crmCalled, note_log,
                   besidesPipeline>>

\* mutant: the update writes "completed" whatever status it is given
UpdatedEmailsCompleted(message_id, status) ==
    [i \in 1..Len(emails) |->
        IF emails[i].microsoft_email_id = message_id
        THEN [emails[i] EXCEPT !.processing_status = "completed"]
        ELSE emails[i]]

\* rows of the emails table after update(...).eq("microsoft_email_id", id)
UpdatedEmails(message_id, status) ==
    [i \in 1..Len(emails) |->
        IF emails[i].microsoft_email_id = message_id
        THEN [emails[i] EXCEPT !.processing_status = status]
        ELSE emails[i]]

\* process_email_webhook, lines 488-547: record the result on the email row
UpdateEmailRecord(firstOk, secondOk) ==
    /\ pc \in {"returned", "ai_error"}
    /\ Failing(<<firstOk, secondOk>>)
    /\ LET id == notification.message_id
           \* ai_result.get("ai_result", {}).get(...) raises on None
           completed == pc = "returned" /\ result.raised = "" /\ result.ai_result # PyNone
       IN  IF completed /\ firstOk
           THEN /\ emails' = UpdatedEmails(id, "completed")
                /\ Finish(notification, "ai_processed")
           ELSE IF secondOk
           THEN /\ emails' = UpdatedEmails(id, "ai_failed")
                /\ Finish(notification, "ai_failed")
           ELSE /\ UNCHANGED emails
                /\ Finish(notification, "update_failed")
    /\ UNCHANGED <<notification, integrations, activity_logs, crmVars,
                   besidesPipeline>>

Next ==
    \/ \E n \in Notifications, lookupFails \in BOOLEAN : ReceiveNotification(n, lookupFails)
    \/ \E lookupFails \in BOOLEAN : VerifyMapping(lookupFails)
    \/ \E fetchOk \in BOOLEAN : FetchEmailContent(fetchOk)
    \/ \E insertOk \in BOOLEAN : StoreEmail(insertOk)
    \/ \E tokensLoaded \in BOOLEAN : ConstructOrchestrator(tokensLoaded)
    \/ \E responses \in [1..max_retries -> SampleResponses], storeOk \in BOOLEAN :
          AnalyzeEmail(responses, storeOk)
    \/ \E searchOk \in BOOLEAN, dealsOk \in BOOLEAN, timesEqual \in BOOLEAN :
          ContactHasDeals(searchOk, dealsOk, timesEqual)
    \/ \E callOk \in BOOLEAN : CheckOpenDeal(callOk)
    \/ \E callOk \in BOOLEAN : SearchOrganization(callOk)
    \/ \E searchOk \in BOOLEAN, orgOk \in BOOLEAN, personOk \in BOOLEAN,
          timesEqual \in BOOLEAN : CreateContact(searchOk, orgOk, personOk, timesEqual)
    \/ \E openOk \in BOOLEAN, dealOk \in BOOLEAN, summaryOk \in BOOLEAN,
          noteOk \in BOOLEAN : CreateDealIfNeeded(openOk, dealOk, summaryOk, noteOk)
    \/ \E storeOk \in BOOLEAN : CategorizeAndLog(storeOk)
    \/ \E firstOk \in BOOLEAN, secondOk \in BOOLEAN : UpdateEmailRecord(firstOk, secondOk)

Spec == Init /\ [][Next]_vars

(***************************************************************************)
(* SpecClassify: the classification client on every bounded response text  *)
(***************************************************************************)
InitClassify ==
    /\ IdleExcept("classify")
    /\ clsPc = "input"
    /\ content \in Texts
    /\ parsed = Raised("unset")
    /\ statuses = [i \in 1..max_retries |-> 0]
    /\ classified = PyNone

\* _parse_ai_response applied to the service's text
ParseResponse ==
    /\ clsPc = "input"
    /\ parsed' = parse_ai_response(content)
    /\ clsPc' = "parsed"
    /\ UNCHANGED <<content, statuses, classified>>
    /\ UNCHANGED besidesClassify

\* classify(): the decorated analyze_email under _analyze_email; each of the
\* at most three attempts gets HTTP 200 with the text, or an HTTP error
Classify ==
    /\ clsPc = "parsed"
    /\ \E st \in [1..max_retries -> {200, 500}] :
          /\ statuses' = st
          /\ classified' =
                orch_analyze_email([i \in 1..max_retries |-> HttpResponse(st[i], content)])
    /\ clsPc' = "classified"
    /\ UNCHANGED <<content, parsed>>
    /\ UNCHANGED besidesClassify

NextClassify == ParseResponse \/ Classify

\* a client constructed by _load_tokens from an integration saved by
\* save_integration (encrypt_dict), with or without a refresh token
InitCall ==
    /\ op \in Operations
    /\ callPc = "start"
    /\ attempt = 0
    /\ \E rt \in {0, 1} : tokens = [access_token |-> 1, refresh_token |-> rt]
    /\ stored = [access_token  |-> Encrypted(tokens.access_token),
                 refresh_token |-> Encrypted(tokens.refresh_token)]
    /\ issued = 1
    /\ requests = << >>
    /\ refreshes = 0
    /\ refreshFailed = FALSE
    /\ opResult = "pending"
    /\ IdleExcept("call")

SpecCall == InitCall /\ [][NextCall]_vars

SpecClassify == InitClassify /\ [][NextClassify]_vars

\* handle_email_webhook up to the call of process_email_webhook: the
\* validation request, the empty and the non-JSON body are answered 200;
\* then the signature (production only), the payload structure, the client
\* state and the subscription of the FIRST element of value are checked
InitIngest ==
    /\ IdleExcept("ingest")
    /\ ingPc = "received"
    /\ environment \in {"production", "development"}
    /\ body \in {"validation", "empty", "not_json", "json"}
    /\ IF body = "json" THEN payload \in Payloads \cup {<< >>} ELSE payload = << >>
    /\ cursor = 0
    /\ handedOver = {}
    /\ httpStatus = 0

HandleEmailWebhook(signatureOk, lookupFails) ==
    /\ ingPc = "received"
    /\ LET user_id == extract_user_id_from_client_state(payload[1].clientState)
           status ==
               IF body # "json" THEN 200
               ELSE IF environment = "production" /\ ~signatureOk THEN 401
               ELSE IF ~validate_webhook_payload(payload) THEN 400
               ELSE IF user_id = "" THEN 400
               ELSE IF ~validate_subscription_exists(payload[1].subscriptionId,
                                                     user_id, lookupFails) THEN 404
               ELSE 0
       IN  IF status # 0
           THEN /\ httpStatus' = status
                /\ ingPc' = "done"
                /\ UNCHANGED cursor
           ELSE /\ ingPc' = "processing"
                /\ cursor' = 1
                /\ UNCHANGED httpStatus
    /\ UNCHANGED <<environment, body, payload, handedOver>>
    /\ UNCHANGED besidesIngest

\* one iteration of "for notification in value" (webhooks/microsoft.py
\* 352-547): the notification is given to AgentOrchestrator when its fields
\* parse, the mapping of its own user is verified and the duplicate check,
\* the fetch and the insert pass (stepsOk)
ProcessNotification(stepsOk, lookupFails) ==
    /\ ingPc = "processing"
    /\ cursor <= Len(payload)
    /\ LET n == payload[cursor]
           supabase_user_id == extract_user_id_from_client_state(n.clientState)
       IN  handedOver' =
               IF /\ n.microsoft_user_id # ""
                  /\ supabase_user_id # ""
                  /\ stepsOk
                  /\ verify_microsoft_user_mapping(supabase_user_id,
                                                   n.microsoft_user_id, lookupFails)
               THEN handedOver \cup {cursor}
               ELSE handedOver
    /\ cursor' = cursor + 1
    /\ UNCHANGED <<ingPc, environment, body, payload, httpStatus>>
    /\ UNCHANGED besidesIngest

\* the loop is over: 202 Accepted
AnswerAccepted ==
    /\ ingPc = "processing"
    /\ cursor > Len(payload)
    /\ ingPc' = "done"
    /\ httpStatus' = 202
    /\ UNCHANGED <<environment, body, payload, cursor, handedOver>>
    /\ UNCHANGED besidesIngest

NextIngest ==
    \/ \E signatureOk, lookupFails \in BOOLEAN : HandleEmailWebhook(signatureOk, lookupFails)
    \/ \E stepsOk, lookupFails \in BOOLEAN : ProcessNotification(stepsOk, lookupFails)
    \/ AnswerAccepted

SpecIngest == InitIngest /\ [][NextIngest]_vars


InitCategorize ==
    /\ IdleExcept("categorize")
    /\ catPc = "input"
    /\ cat_ai \in CategorizeAiResults
    /\ cat_pd \in CategorizePipedriveResults
    /\ cat_outcome = Raised("unset")

Categorize ==
    /\ catPc = "input"
    /\ cat_outcome' = categorize_webhook_outcome(cat_ai, cat_pd)
    /\ catPc' = "done"
    /\ UNCHANGED <<cat_ai, cat_pd>>
    /\ UNCHANGED besidesCategorize

NextCategorize == Categorize

SpecCategorize == InitCategorize /\ [][NextCategorize]_vars

InitCredential ==
    /\ IdleExcept("credential")
    /\ credPc = "read"
    /\ credPath \in ReadPaths
    /\ \E a \in StoredSecrets, r \in StoredSecrets \cup {PyNone} :
          credRow = [access_token |-> a, refresh_token |-> r]
    /\ credFailed = FALSE
    /\ credResult = Raised("unset")

ReadCredential(garbles) ==
    /\ credPc = "read"
    /\ credFailed' =
          \/ decrypt_token(credRow.access_token, garbles).raised # ""
          \/ /\ credRow.refresh_token # PyNone
             /\ decrypt_token(credRow.refresh_token, garbles).raised # ""
    /\ credResult' =
          IF credPath \in {"PipedriveManager._load_tokens", "MicrosoftManager._load_tokens"}
          THEN load_tokens(credRow, garbles)
          ELSE get_integration(credRow, garbles)
    /\ credPc' = "done"
    /\ UNCHANGED <<credPath, credRow>>
    /\ UNCHANGED besidesCredential

NextCredential == \E garbles \in BOOLEAN : ReadCredential(garbles)

SpecCredential == InitCredential /\ [][NextCredential]_vars

\* every manager was constructed by _load_tokens from the same row
InitRefresh ==
    /\ IdleExcept("refresh")
    /\ rProvider \in {"pipedrive", "microsoft"}
    /\ rPc = [c \in Callers |-> "start"]
    /\ \E rt \in {0, 1} :
          rTokens = [c \in Callers |-> [access_token |-> 1, refresh_token |-> rt]]
    /\ rStored = [access_token  |-> Encrypted(rTokens["c1"].access_token),
                  refresh_token |-> Encrypted(rTokens["c1"].refresh_token)]
    /\ rIssued = 1
    /\ rInflight = [c \in Callers |-> NoPair]
    /\ rRefreshLog = << >>
    /\ rResult = [c \in Callers |-> "pending"]

\* what ends a call: the domain operation returns the value or its fallback
EndCall(c, callOutcome) ==
    /\ rPc' = [rPc EXCEPT ![c] = "done"]
    /\ rResult' = [rResult EXCEPT ![c] = domain_operation(callOutcome)]

\* _make_api_call, lines 195-205: the first request and its response
ApiRequest(c, status) ==
    /\ rPc[c] = "start"
    /\ IF status = 401
       THEN /\ rPc' = [rPc EXCEPT ![c] = "refresh"]
            /\ UNCHANGED rResult
       ELSE EndCall(c, IF status \in {200, 201} THEN "returned" ELSE "raised")
    /\ UNCHANGED <<rProvider, rTokens, rStored, rIssued, rInflight, rRefreshLog>>
    /\ UNCHANGED besidesRefresh

\* mutant: a refresh waits while another call's refresh is under way
refresh_exclusive(c) == \A d \in Callers \ {c} : rPc[d] # "await_token"

\* _make_api_call, line 205: nothing is waited for or looked at before
\* _refresh_access_token is called
refresh_permitted(c) == TRUE

\* _refresh_access_token up to "await client.post": the refresh token of
\* this manager is sent; the endpoint answers an error or issues a pair
RefreshRequest(c, outcome, rotates) ==
    /\ rPc[c] = "refresh"
    /\ refresh_permitted(c)
    /\ IF rTokens[c].refresh_token = 0
       THEN /\ EndCall(c, "raised")
            /\ UNCHANGED <<rIssued, rInflight, rRefreshLog>>
       ELSE /\ rRefreshLog' = Append(rRefreshLog,
                                     [caller |-> c,
                                      refresh_token |-> rTokens[c].refresh_token,
                                      stored |-> rStored.refresh_token.tok])
            /\ IF outcome = "token_error"
               THEN /\ EndCall(c, "raised")
                    /\ UNCHANGED <<rIssued, rInflight>>
               ELSE /\ rIssued' = rIssued + 1
                    /\ rInflight' = [rInflight EXCEPT
                                       ![c] = RefreshedPair(rTokens[c], rIssued + 1, rotates)]
                    /\ rPc' = [rPc EXCEPT ![c] = "await_token"]
                    /\ UNCHANGED rResult
    /\ UNCHANGED <<rProvider, rTokens, rStored>>
    /\ UNCHANGED besidesRefresh

\* _refresh_access_token after the await: self.tokens is updated, then the
\* integrations row is written (no await in between)
RefreshResponse(c, persistOk) ==
    /\ rPc[c] = "await_token"
    /\ rTokens' = [rTokens EXCEPT ![c] = rInflight[c]]
    /\ rInflight' = [rInflight EXCEPT ![c] = NoPair]
    /\ IF persistOk
       THEN /\ rStored' = PersistedPair(rProvider, rInflight[c])
            /\ rPc' = [rPc EXCEPT ![c] = "retry"]
            /\ UNCHANGED rResult
       ELSE /\ EndCall(c, "raised")
            /\ UNCHANGED rStored
    /\ UNCHANGED <<rProvider, rIssued, rRefreshLog>>
    /\ UNCHANGED besidesRefresh

\* _make_api_call, lines 207-217: the retry
ApiRetry(c, status) ==
    /\ rPc[c] = "retry"
    /\ EndCall(c, IF status \in {200, 201} THEN "returned" ELSE "raised")
    /\ UNCHANGED <<rProvider, rTokens, rStored, rIssued, rInflight, rRefreshLog>>
    /\ UNCHANGED besidesRefresh

NextRefresh ==
    \/ \E c \in Callers, status \in StatusCodes : ApiRequest(c, status)
    \/ \E c \in Callers, outcome \in {"ok", "token_error"}, rotates \in BOOLEAN :
          RefreshRequest(c, outcome, rotates)
    \/ \E c \in Callers, persistOk \in BOOLEAN : RefreshResponse(c, persistOk)
    \/ \E c \in Callers, status \in StatusCodes : ApiRetry(c, status)

SpecRefresh == InitRefresh /\ [][NextRefresh]_vars

(***************************************************************************)
(* SpecResolve: actions.  Every CRM request succeeds, so that what is      *)
(* reached is due to the interleaving alone.                               *)
(***************************************************************************)
InitResolve ==
    /\ IdleExcept("resolve")
    /\ pc = "off"
    /\ handled = 0
    /\ faults = 0
    /\ notification = NoNotification
    /\ disposition = "none"
    /\ integrations = InitialIntegrations
    /\ emails = << >>
    /\ activity_logs = << >>
    /\ notes = {}
    /\ OrchIdle
    /\ wPc = [w \in Workers |-> "start"]
    /\ wLocal = [w \in Workers |-> NoLocals]
    /\ wResult = [w \in Workers |-> "pending"]
    /\ \E crm \in InitialCRMs :
          /\ persons = crm.persons
          /\ organizations = crm.organizations
          /\ deals = crm.deals

\* the recipient of the emails both invocations resolve
ResolvedRecipient == Anna

\* mutant: a resolution begins only while no other one for the recipient
\* is under way
resolution_exclusive(w) ==
    \A v \in Workers \ {w} : wPc[v] \in {"start", "done"}

\* _handle_pipedrive_operations, lines 157-172: nothing is acquired or
\* waited for before the first CRM request
resolution_permitted(w) == TRUE

\* lines 169-174: contact_has_deals
ResolveContactHasDeals(w) ==
    /\ wPc[w] = "start"
    /\ resolution_permitted(w)
    /\ \E found \in search_contact_by_email(ResolvedRecipient, TRUE) :
          wLocal' = [wLocal EXCEPT ![w] =
                        [@ EXCEPT !.contact = found.id,
                                  !.contact_existed = found # NoContact]]
    /\ wPc' = [wPc EXCEPT ![w] = "has_open_deal"]
    /\ UNCHANGED <<wResult, persons, organizations, deals, besidesResolve>>

\* lines 176-181
ResolveCheckOpenDeal(w) ==
    /\ wPc[w] = "has_open_deal"
    /\ wLocal' = [wLocal EXCEPT ![w].has_open_deal =
                     /\ wLocal[w].contact # 0
                     /\ pipedrive_has_open_deal(wLocal[w].contact, TRUE)]
    /\ wPc' = [wPc EXCEPT ![w] = "search_organization"]
    /\ UNCHANGED <<wResult, persons, organizations, deals, besidesResolve>>

\* lines 183-193
ResolveSearchOrganization(w) ==
    /\ wPc[w] = "search_organization"
    /\ wLocal' = [wLocal EXCEPT ![w].org_exists =
                     search_organization_by_name(
                         organization_name_of(ResolvedRecipient), TRUE)]
    /\ wPc' = [wPc EXCEPT ![w] = "create_contact"]
    /\ UNCHANGED <<wResult, persons, organizations, deals, besidesResolve>>

\* lines 195-210 with PipedriveManager.create_contact
ResolveCreateContact(w) ==
    /\ wPc[w] = "create_contact"
    /\ IF wLocal[w].contact_existed
       THEN UNCHANGED <<persons, organizations, wLocal>>
       ELSE LET name == organization_name_of(ResolvedRecipient)
                known == {o \in organizations : Lower(o.name) = Lower(name)}
                newOrg == [id |-> NextId(organizations), name |-> name]
                org_id == IF known # {} THEN (CHOOSE o \in known : TRUE).id
                          ELSE newOrg.id
                person == [id |-> NextId(persons), email |-> ResolvedRecipient,
                           org_id |-> org_id]
            IN  /\ organizations' = IF known = {} THEN organizations \cup {newOrg}
                                    ELSE organizations
                /\ persons' = persons \cup {person}
                /\ wLocal' = [wLocal EXCEPT ![w].contact = person.id]
    /\ wPc' = [wPc EXCEPT ![w] = IF wLocal[w].has_open_deal THEN "done"
                                 ELSE "recheck_open_deal"]
    /\ wResult' = [wResult EXCEPT ![w] = IF wLocal[w].has_open_deal THEN "False"
                                         ELSE @]
    /\ UNCHANGED <<deals, besidesResolve>>

\* _create_deal_if_needed, lines 253-260: the open-deal check before the
\* deal is created
ResolveRecheckOpenDeal(w) ==
    /\ wPc[w] = "recheck_open_deal"
    /\ IF pipedrive_has_open_deal(wLocal[w].contact, TRUE)
       THEN /\ wPc' = [wPc EXCEPT ![w] = "done"]
            /\ wResult' = [wResult EXCEPT ![w] = "False"]
       ELSE /\ wPc' = [wPc EXCEPT ![w] = "create_deal"]
            /\ UNCHANGED wResult
    /\ UNCHANGED <<wLocal, persons, organizations, deals, besidesResolve>>

\* _create_deal_if_needed, lines 275-294: create_deal
ResolveCreateDeal(w) ==
    /\ wPc[w] = "create_deal"
    /\ deals' = deals \cup {[id |-> NextId(deals), person_id |-> wLocal[w].contact,
                             status |-> "open"]}
    /\ wPc' = [wPc EXCEPT ![w] = "done"]
    /\ wResult' = [wResult EXCEPT ![w] = "True"]
    /\ UNCHANGED <<wLocal, persons, organizations, besidesResolve>>

NextResolve ==
    \/ \E w \in Workers : ResolveContactHasDeals(w)
    \/ \E w \in Workers : ResolveCheckOpenDeal(w)
    \/ \E w \in Workers : ResolveSearchOrganization(w)
    \/ \E w \in Workers : ResolveCreateContact(w)
    \/ \E w \in Workers : ResolveRecheckOpenDeal(w)
    \/ \E w \in Workers : ResolveCreateDeal(w)

SpecResolve == InitResolve /\ [][NextResolve]_vars

(***************************************************************************)
(* SpecRateLimit: actions.  check_rate_limit has no await that suspends    *)
(* (the store client is synchronous), so one check is one step.            *)
(***************************************************************************)
InitRateLimit ==
    /\ IdleExcept("limit")
    /\ rlOperation \in CheckedOperations
    /\ rlClock = 0
    /\ rlWindows = [t \in Seconds |-> 0]
    /\ rlAdmitted = [t \in Seconds |-> 0]
    /\ rlFaults = 0
    /\ rlReturned = "none"

\* check_rate_limit, lines 122-123: window_start is the present second
window_start(now) == now

\* _get_or_create_window: requests_count of the row whose window_start is
\* the given one (a row just created has 0), or of the default window
\* returned when the store fails
get_or_create_window(start, storeOk) ==
    IF storeOk THEN [id |-> "row", requests_count |-> rlWindows[start]]
    ELSE [id |-> "default", requests_count |-> 0]

\* one call of check_rate_limit for the user and the operation
CheckRateLimit(storeOk, incrementOk) ==
    /\ LET n == Cardinality({f \in {<<1, storeOk>>, <<2, incrementOk>>} : ~f[2]})
       IN  /\ rlFaults + n <= MaxFaults
           /\ rlFaults' = rlFaults + n
    /\ IF rlOperation \notin DOMAIN rate_limits
       THEN /\ rlReturned' = "True"
            /\ UNCHANGED <<rlWindows, rlAdmitted>>
       ELSE LET config == rate_limits[rlOperation]
                start == window_start(rlClock)
                window_data == get_or_create_window(start, storeOk)
                is_blocked == window_data.requests_count >= config.max_requests
            IN  IF is_blocked
                THEN /\ rlReturned' = "False"
                     /\ UNCHANGED <<rlWindows, rlAdmitted>>
                ELSE /\ rlWindows' =
                          IF window_data.id = "row" /\ incrementOk
                          THEN [rlWindows EXCEPT ![start] = @ + 1]
                          ELSE rlWindows
                     /\ rlAdmitted' = [rlAdmitted EXCEPT ![rlClock] = @ + 1]
                     /\ rlReturned' = "True"
    /\ UNCHANGED <<rlOperation, rlClock>>
    /\ UNCHANGED besidesLimit

\* a second passes
Tick ==
    /\ rlClock < MaxClock
    /\ rlClock' = rlClock + 1
    /\ UNCHANGED <<rlOperation, rlWindows, rlAdmitted, rlFaults, rlReturned>>
    /\ UNCHANGED besidesLimit

NextRateLimit ==
    \/ \E storeOk \in BOOLEAN, incrementOk \in BOOLEAN :
          CheckRateLimit(storeOk, incrementOk)
    \/ Tick

SpecRateLimit == InitRateLimit /\ [][NextRateLimit]_vars

(***************************************************************************)
(* SpecFetch: MicrosoftWebhookHandler.fetch_email_content for one message, *)
(* from the integrations row of the user to the value it returns.  The     *)
(* row is credRow, the tokens of the MicrosoftManager are credResult, the  *)
(* requests sent to the Graph API are requests.                            *)
(***************************************************************************)
besidesFetch == <<clsVars, pipeVars, ingVars, catVars, refreshVars, resolveVars, limitVars>>

InitFetch ==
    /\ IdleExcept("fetch")
    /\ op = [provider |-> "microsoft", name |-> "fetch_email_content", fallback |-> "None"]
    /\ callPc = "get_access_token"
    /\ attempt = 0
    /\ tokens = [access_token |-> 0, refresh_token |-> 0]
    /\ stored = PersistedPair("microsoft", tokens)
    /\ issued = 0
    /\ requests = << >>
    /\ refreshes = 0
    /\ refreshFailed = FALSE
    /\ opResult = "pending"
    /\ credPc = "read"
    /\ credPath = "MicrosoftManager._load_tokens"
    /\ \E a \in StoredSecrets, r \in StoredSecrets \cup {PyNone} :
          credRow = [access_token |-> a, refresh_token |-> r]
    /\ credFailed = FALSE
    /\ credResult = Raised("unset")

\* get_access_token: MicrosoftManager(user_id) loads the tokens; any
\* exception is logged and None is returned, and fetch_email_content
\* returns None in turn (lines 302-305)
GetAccessToken(garbles) ==
    /\ callPc = "get_access_token"
    /\ credResult' = load_tokens(credRow, garbles)
    /\ credFailed' = (credResult'.raised # "")
    /\ credPc' = "done"
    /\ IF credResult'.raised # ""
       THEN /\ callPc' = "done"
            /\ opResult' = "None"
       ELSE /\ callPc' = "get"
            /\ UNCHANGED opResult
    /\ UNCHANGED <<op, attempt, tokens, stored, issued, requests, refreshes,
                   refreshFailed, credPath, credRow>>
    /\ UNCHANGED besidesFetch

\* what fetch_email_content does with the response of its GET: the message
\* on 200, None on every other status
fetch_response(status) == IF status = 200 THEN "email_data" ELSE "None"

\* the GET of fetch_email_content with the bearer token just loaded
\* (lines 307-330)
GetMessage(status) ==
    /\ callPc = "get"
    /\ requests' = Append(requests,
           [token |-> credResult.value.access_token, status_code |-> status])
    /\ opResult' = fetch_response(status)
    /\ callPc' = "done"
    /\ UNCHANGED <<op, attempt, tokens, stored, issued, refreshes, refreshFailed,
                   credVars>>
    /\ UNCHANGED besidesFetch

NextFetch ==
    \/ \E garbles \in BOOLEAN : GetAccessToken(garbles)
    \/ \E status \in StatusCodes : GetMessage(status)

SpecFetch == InitFetch /\ [][NextFetch]_vars

(***************************************************************************)
(* SpecProcess: AgentOrchestrator.process_email for one stored email, the  *)
(* attempts of the classification request taken one at a time.  statuses   *)
(* is the list of the status codes the attempts met, content the text the  *)
(* service answers with, parsed what the decorated analyze_email ends with.*)
(***************************************************************************)
InitProcess ==
    /\ IdleExcept("process")
    /\ clsPc = "attempt"
    /\ content \in SampleTexts
    /\ parsed = Raised("unset")
    /\ statuses = << >>
    /\ classified = PyNone
    /\ pc = "analyze"
    /\ handled = 0
    /\ faults = 0
    /\ notification = Notification("m1", "u1", "msg1")
    /\ disposition = "none"
    /\ integrations = InitialIntegrations
    /\ emails = <<[user_id |-> "u1", microsoft_email_id |-> "msg1",
                   processing_status |-> "stored"]>>
    /\ activity_logs = << >>
    /\ \E crm \in InitialCRMs :
          /\ persons = crm.persons
          /\ organizations = crm.organizations
          /\ deals = crm.deals
    /\ notes = {}
    /\ email_data = [id |-> "msg1", to |-> MessageTo["msg1"], user_id |-> "u1"]
    /\ ai_result = PyNone
    /\ deal_check = EmptyDealCheck
    /\ contact_existed = FALSE
    /\ has_open_deal = FALSE
    /\ org_exists = FALSE
    /\ result = NoResult
    /\ audit = "none"
    /\ crmCalled = FALSE
    /\ note_log = NoNote

\* mutant: the loop gives up one failure later
last_attempt_late(n) == n = max_retries

\* handle_ai_errors, line 81: attempt n (from 0) is the last one
last_attempt(n) == n = max_retries - 1

\* one pass of the loop of handle_ai_errors (lines 53-90) around
\* analyze_email: the request is sent and answered with status; a result is
\* returned, the failure of the last attempt is raised, any other failure
\* leads to the next pass
AttemptClassification(status) ==
    /\ clsPc = "attempt"
    /\ statuses' = Append(statuses, status)
    /\ LET r == analyze_email_body(HttpResponse(status, content))
       IN  IF r.raised = ""
           THEN /\ parsed' = r
                /\ clsPc' = "classified"
           ELSE IF last_attempt(Len(statuses))
           THEN /\ parsed' = Raised("AIAnalysisError")
                /\ clsPc' = "classified"
           ELSE UNCHANGED <<parsed, clsPc>>
    /\ UNCHANGED <<content, classified>>
    /\ UNCHANGED besidesClassify

\* the responses the attempts met, as the argument of analyze_email
RecordedResponses ==
    [i \in 1..max_retries |->
        HttpResponse(IF i <= Len(statuses) THEN statuses[i] ELSE 500, content)]

\* process_email, lines 57-93, once the decorated analyze_email has ended
ProcessClassification(storeOk) ==
    /\ clsPc = "classified"
    /\ AnalyzeEmail(RecordedResponses, storeOk)

NextProcess ==
    \/ \E status \in {200, 500} : AttemptClassification(status)
    \/ \E storeOk \in BOOLEAN : ProcessClassification(storeOk)
    \/ \E searchOk \in BOOLEAN, dealsOk \in BOOLEAN, timesEqual \in BOOLEAN :
          ContactHasDeals(searchOk, dealsOk, timesEqual)
    \/ \E callOk \in BOOLEAN : CheckOpenDeal(callOk)
    \/ \E callOk \in BOOLEAN : SearchOrganization(callOk)
    \/ \E searchOk \in BOOLEAN, orgOk \in BOOLEAN, personOk \in BOOLEAN,
          timesEqual \in BOOLEAN : CreateContact(searchOk, orgOk, personOk, timesEqual)
    \/ \E openOk \in BOOLEAN, dealOk \in BOOLEAN, summaryOk \in BOOLEAN,
          noteOk \in BOOLEAN : CreateDealIfNeeded(openOk, dealOk, summaryOk, noteOk)
    \/ \E storeOk \in BOOLEAN : CategorizeAndLog(storeOk)

SpecProcess == InitProcess /\ [][NextProcess]_vars

(***************************************************************************)
(* SpecReload: one decorated provider-client operation, as in SpecCall,    *)
(* and a second client constructed for the same user from the integrations *)
(* record, before or after the first client's refresh                      *)
(***************************************************************************)
InitReload ==
    /\ IdleExcept("reload")
    /\ op \in Operations
    /\ callPc = "start"
    /\ attempt = 0
    /\ \E rt \in {0, 1} : tokens = [access_token |-> 1, refresh_token |-> rt]
    /\ stored = [access_token  |-> Encrypted(tokens.access_token),
                 refresh_token |-> Encrypted(tokens.refresh_token)]
    /\ issued = 1
    /\ requests = << >>
    /\ refreshes = 0
    /\ refreshFailed = FALSE
    /\ opResult = "pending"
    /\ credPc = "read"
    /\ credPath = "none"
    /\ credRow = [access_token |-> PyNone, refresh_token |-> PyNone]
    /\ credFailed = FALSE
    /\ credResult = Raised("unset")

\* the integrations row as select("*") returns it: the refresh_token column
\* is null when the integration has no refresh token
StoredRow ==
    [access_token  |-> stored.access_token,
     refresh_token |-> IF stored.refresh_token.tok = 0 THEN PyNone
                       ELSE stored.refresh_token]

\* PipedriveManager(user_id) / MicrosoftManager(user_id): __init__ calls
\* _load_tokens on the row the store holds now
ConstructClient(garbles) ==
    /\ credPc = "read"
    /\ credPath' = IF op.provider = "microsoft" THEN "MicrosoftManager._load_tokens"
                   ELSE "PipedriveManager._load_tokens"
    /\ credRow' = StoredRow
    /\ credResult' = load_tokens(StoredRow, garbles)
    /\ credFailed' = (credResult'.raised # "")
    /\ credPc' = "done"
    /\ UNCHANGED callVars
    /\ UNCHANGED besidesFetch

NextReload ==
    \/ \E status \in StatusCodes : SendRequest(status)
    \/ \E outcome \in {"ok", "token_error", "persist_error"}, rotates \in BOOLEAN :
          RefreshAccessToken(outcome, rotates)
    \/ \E status \in StatusCodes : RetryRequest(status)
    \/ \E garbles \in BOOLEAN : ConstructClient(garbles)

SpecReload == InitReload /\ [][NextReload]_vars

(***************************************************************************)
(* SpecShared: the webhook pipeline of Spec for two users with an active   *)
(* mailbox integration each, whose mailboxes both deliver a message with   *)
(* the provider message id msg1                                            *)
(***************************************************************************)
TwoActiveIntegrations ==
    [u \in Users |->
        CASE u = "u1" -> Integration(TRUE, "m1")
          [] u = "u2" -> Integration(TRUE, "m2")
          [] OTHER    -> NoIntegration]

SharedNotifications == {Notification("m1", "u1", "msg1"), Notification("m2", "u2", "msg1")}

InitShared ==
    /\ IdleExcept("shared")
    /\ pc = "idle"
    /\ handled = 0
    /\ faults = 0
    /\ notification = NoNotification
    /\ disposition = "none"
    /\ integrations = TwoActiveIntegrations
    /\ emails = << >>
    /\ activity_logs = << >>
    /\ \E crm \in InitialCRMs :
          /\ crm.persons = {LarsPerson}
          /\ persons = crm.persons
          /\ organizations = crm.organizations
          /\ deals = crm.deals
    /\ notes = {}
    /\ OrchIdle

NextShared ==
    \/ \E n \in SharedNotifications, lookupFails \in BOOLEAN :
          ReceiveNotification(n, lookupFails)
    \/ \E lookupFails \in BOOLEAN : VerifyMapping(lookupFails)
    \/ \E fetchOk \in BOOLEAN : FetchEmailContent(fetchOk)
    \/ \E insertOk \in BOOLEAN : StoreEmail(insertOk)
    \/ \E tokensLoaded \in BOOLEAN : ConstructOrchestrator(tokensLoaded)
    \/ \E responses \in [1..max_retries -> SampleResponses], storeOk \in BOOLEAN :
          AnalyzeEmail(responses, storeOk)
    \/ \E searchOk \in BOOLEAN, dealsOk \in BOOLEAN, timesEqual \in BOOLEAN :
          ContactHasDeals(searchOk, dealsOk, timesEqual)
    \/ \E callOk \in BOOLEAN : CheckOpenDeal(callOk)
    \/ \E callOk \in BOOLEAN : SearchOrganization(callOk)
    \/ \E searchOk \in BOOLEAN, orgOk \in BOOLEAN, personOk \in BOOLEAN,
          timesEqual \in BOOLEAN : CreateContact(searchOk, orgOk, personOk, timesEqual)
    \/ \E openOk \in BOOLEAN, dealOk \in BOOLEAN, summaryOk \in BOOLEAN,
          noteOk \in BOOLEAN : CreateDealIfNeeded(openOk, dealOk, summaryOk, noteOk)
    \/ \E storeOk \in BOOLEAN : CategorizeAndLog(storeOk)
    \/ \E firstOk \in BOOLEAN, secondOk \in BOOLEAN : UpdateEmailRecord(firstOk, secondOk)

SpecShared == InitShared /\ [][NextShared]_vars

(***************************************************************************)
(* Claims                                                                  *)
(***************************************************************************)
OpenDealsOf(person_id) == {d \in deals : d.person_id = person_id /\ d.status = "open"}

AuditEntries(user_id, message_id) ==
    {i \in 1..Len(activity_logs) :
        activity_logs[i].user_id = user_id /\ activity_logs[i].message_id = message_id}

EmailRows(user_id, message_id) ==
    {i \in 1..Len(emails) :
        emails[i].user_id = user_id /\ emails[i].microsoft_email_id = message_id}

\* the stored, active integration of the notification's user names the
\* provider-user id of the notification's resource path
MappingStored(n) ==
    /\ n.user_id \in Users
    /\ integrations[n.user_id].present
    /\ integrations[n.user_id].is_active
    /\ integrations[n.user_id].microsoft_user_id = n.microsoft_user_id

\* C1: no contact ever holds two open deals: a deal is never created for a
\* contact that has an open deal at that moment, whatever CRM calls fail
\* (checked under Spec, whose initial workspaces hold at most one open deal
\* per contact).
C1_NoSecondOpenDeal ==
    \A p \in persons : Cardinality(OpenDealsOf(p.id)) <= 1

\* C2: once a (user_id, message_id) has been ingested a second time (skipped
\* as a duplicate, or recorded twice), exactly one audit entry exists for it.
C2_ExactlyOneOutcomeRecord ==
    (/\ pc = "idle"
     /\ \/ disposition = "skipped_duplicate"
        \/ Cardinality(EmailRows(notification.user_id, notification.message_id)) >= 2)
    => Cardinality(AuditEntries(notification.user_id, notification.message_id)) = 1

\* C3: process_email never raises: whenever it has returned, under any
\* failures of classification, CRM steps, categorization and logging, its
\* result carries an outcome label.
C3_ProcessEmailReturnsOutcome ==
    pc = "returned" => (result.raised = "" /\ result.outcome # "")

\* C3 witness: process_email returned an error outcome after CRM calls failed
\* and the categorization raised.
C3_Witness ==
    /\ pc = "returned"
    /\ faults > 0
    /\ crmCalled
    /\ ~result.success
    /\ result.outcome = "Error: Processing failed: '<' not supported between instances"

\* C4: every process_email invocation has attempted its audit write by the
\* time it returns.
C4_AuditBeforeReturn ==
    pc = "returned" => audit # "none"

\* C5: while the classification of the current email says "not an
\* opportunity", no step changes the CRM or issues a CRM request.
C5_NonOpportunityLeavesCRM ==
    [][(ai_result # PyNone /\ ~Truthy(ai_result.is_sales_opportunity))
          => (UNCHANGED crmVars /\ ~crmCalled')]_vars

\* C5 witness: process_email returned for a non-opportunity with a parsed
\* classification, having issued no CRM request.
C5_Witness ==
    /\ pc = "returned"
    /\ ai_result # PyNone
    /\ ai_result.is_sales_opportunity = "False"
    /\ ai_result.confidence = "0.9"
    /\ result.outcome = "Ignored: Not a sales deal"
    /\ ~crmCalled

\* C6: one _make_api_call issues at most two requests and at most one
\* refresh; a refresh follows a first 401 only; the second request is the
\* retry after a successful refresh, carries the refreshed access token, not
\* the old one, and is sent with the new pair persisted; a first 401 whose
\* refresh succeeded is retried.
C6_RefreshOnceRetryOnce ==
    /\ Len(requests) <= 2
    /\ refreshes <= 1
    /\ refreshes = 1 => (Len(requests) >= 1 /\ requests[1].status_code = 401)
    /\ Len(requests) = 2 =>
          /\ requests[1].status_code = 401
          /\ refreshes = 1
          /\ ~refreshFailed
          /\ requests[2].token = tokens.access_token
          /\ requests[2].token # requests[1].token
          /\ stored.access_token.tok = tokens.access_token
          /\ stored.refresh_token.tok = tokens.refresh_token
    /\ (callPc = "done" /\ requests[1].status_code = 401 /\ ~refreshFailed)
          => (refreshes = 1 /\ Len(requests) = 2)

\* C6 witness: a CRM call got 401, refreshed, and its retry succeeded.
C6_Witness ==
    /\ callPc = "done"
    /\ op.provider = "pipedrive"
    /\ Len(requests) = 2
    /\ requests[1].status_code = 401
    /\ requests[2].status_code = 200
    /\ refreshes = 1
    /\ opResult = "value"

\* C7: a response that is neither 200/201 nor the first 401, and a failed
\* refresh, end the operation: no request follows it, and the retry
\* decorator never starts another attempt.
C7_FailureIsTerminal ==
    /\ attempt = 0
    /\ \A i \in 1..Len(requests) :
          (/\ requests[i].status_code \notin {200, 201}
           /\ ~(i = 1 /\ requests[i].status_code = 401))
          => (i = Len(requests) /\ callPc = "done")
    /\ refreshFailed => (Len(requests) = 1 /\ callPc = "done")

\* C7 witness: the retry after the refresh got a second 401 and the
\* operation ended with its fallback value.
C7_Witness ==
    /\ callPc = "done"
    /\ Len(requests) = 2
    /\ requests[2].status_code = 401
    /\ opResult = "fallback"
    /\ attempt = 0

\* C8: when the service answered every attempt with HTTP 200, classify()
\* returns a result (not None) for every response text.
C8_ClassifyNeverFails ==
    (clsPc = "classified" /\ \A i \in 1..max_retries : statuses[i] = 200)
        => classified # PyNone

\* the fields whose documented default the spec and the decode-error result
\* agree on
DocumentedDefaults ==
    [is_sales_opportunity |-> "False", confidence |-> "0.0", currency |-> "'DKK'",
     person_name |-> "''", organization_name |-> "''", key_points |-> "[]"]

\* the keys of the members that occur in a text
KeysIn(text) == {MemberKey(text[i]) : i \in {j \in 1..Len(text) : text[j] \in Members}}

\* C9: in every result classify() returns, a required field that the
\* response does not carry has its documented default, the same value the
\* malformed-response result gives it.
C9_MissingFieldsGetDocumentedDefault ==
    (clsPc = "classified" /\ classified # PyNone)
        => \A f \in DOMAIN DocumentedDefaults :
              f \notin KeysIn(content)
                 => (classified[f] = DocumentedDefaults[f]
                     /\ classified[f] = DecodeErrorDefault[f])

\* C10: a message is fetched, stored or handed to the Orchestrator only for
\* a notification whose provider-user id is the one stored in the user's
\* active integration; users without such an integration have no email row.
C10_MismatchRejected ==
    /\ pc \notin {"idle", "verify"} => MappingStored(notification)
    /\ \A i \in 1..Len(emails) :
          /\ integrations[emails[i].user_id].present
          /\ integrations[emails[i].user_id].is_active

\* C10 witness: a notification for u1 carrying the foreign provider-user id
\* m2 was rejected by the mapping check, with no call having failed.
C10_Witness ==
    /\ pc = "idle"
    /\ disposition = "mapping_failed"
    /\ notification = Notification("m2", "u1", "msg1")
    /\ faults = 0
    /\ emails = << >>

\* C11: every notification of a request that is given to the Orchestrator
\* names an active subscription of the user in its own client state.
C11_HandedOverHasSubscription ==
    \A i \in handedOver :
        validate_subscription_exists(payload[i].subscriptionId,
                                     payload[i].clientState, FALSE)

\* the label of the taxonomy that each label of the categorizer stands for
TaxonomyLabel ==
    [l \in {"Error: Failed to process", "Skipped: Low confidence score",
            "Ignored: Not a sales deal", "Not created: Deal already exists",
            "Created: Contact & company already exists",
            "Created: Contact already exists", "Created: Company already exists",
            "Created: New contact, company & deal created",
            "Created: New contact created (no company)"} |->
        CASE l = "Error: Failed to process" -> "error: failed to process"
          [] l = "Skipped: Low confidence score" -> "skipped: low confidence"
          [] l = "Ignored: Not a sales deal" -> "ignored: not a sales deal"
          [] l = "Not created: Deal already exists" -> "not created: deal already exists"
          [] l = "Created: Contact & company already exists"
                 -> "created: contact & company already exist"
          [] l = "Created: Contact already exists" -> "created: contact already exists"
          [] l = "Created: Company already exists" -> "created: company already exists"
          [] l = "Created: New contact, company & deal created"
                 -> "created: new contact, company & deal"
          [] OTHER -> "created: new contact, no company"]

\* a returned outcome stands for the given label of the taxonomy
LabelIs(out, label) ==
    /\ out.raised = ""
    /\ out.value \in DOMAIN TaxonomyLabel
    /\ TaxonomyLabel[out.value] = label

\* the classification is an opportunity with a confidence of at least 0.3
ConfidentOpportunity(ai) ==
    /\ ai # PyNone
    /\ IsNumber(ai.confidence) /\ ~BelowThreshold(ai.confidence)
    /\ Truthy(ai.is_sales_opportunity)

\* C12: when process_email returned for a classification with confidence
\* 0.15, the outcome is "skipped: low confidence" and no CRM request was
\* issued.
C12_LowConfidenceSkipsWithoutCRM ==
    (pc = "returned" /\ ai_result # PyNone /\ ai_result.confidence = "0.15")
        => /\ LabelIs(Returned(result.outcome), "skipped: low confidence")
           /\ ~crmCalled

\* C13: with ai_result None the categorizer yields "error: failed to
\* process", whatever the resolution argument is.
C13_NullClassificationIsError ==
    (catPc = "done" /\ cat_ai = PyNone)
        => LabelIs(cat_outcome, "error: failed to process")

\* C13 witness: a missing classification with a resolution that created a
\* deal was categorized as an error.
C13_Witness ==
    /\ catPc = "done"
    /\ cat_ai = PyNone
    /\ cat_pd # PyNone
    /\ cat_pd.deal_created
    /\ cat_outcome = Returned("Error: Failed to process")

\* C14 as stated: a classification whose is_sales_opportunity is false is
\* categorized "ignored: not a sales deal", whatever the resolution is.
C14_NonOpportunityIgnored_AsStated ==
    (catPc = "done" /\ cat_ai # PyNone /\ cat_ai.is_sales_opportunity = "False")
        => LabelIs(cat_outcome, "ignored: not a sales deal")

\* C14: a classification whose is_sales_opportunity is false and whose
\* confidence is a number not below 0.3 is categorized "ignored: not a
\* sales deal", whatever the resolution is; with a confidence below 0.3 it
\* is categorized "skipped: low confidence".
C14_NonOpportunityIgnored ==
    (catPc = "done" /\ cat_ai # PyNone /\ cat_ai.is_sales_opportunity = "False"
        /\ IsNumber(cat_ai.confidence))
        => IF BelowThreshold(cat_ai.confidence)
           THEN LabelIs(cat_outcome, "skipped: low confidence")
           ELSE LabelIs(cat_outcome, "ignored: not a sales deal")

\* C14 witness: a confident non-opportunity with a resolution that created
\* a deal was categorized as ignored.
C14_Witness ==
    /\ catPc = "done"
    /\ cat_ai # PyNone
    /\ cat_ai.is_sales_opportunity = "False"
    /\ cat_ai.confidence = "0.9"
    /\ cat_pd # PyNone
    /\ cat_pd.deal_created
    /\ cat_outcome = Returned("Ignored: Not a sales deal")

\* C15: for a confident opportunity whose resolution created a deal, the
\* label is decided by (contact_existed_before, org_existed_before).
C15_CreatedLabels ==
    (catPc = "done" /\ ConfidentOpportunity(cat_ai) /\ cat_pd # PyNone
        /\ cat_pd.deal_created)
        => LabelIs(cat_outcome,
              CASE cat_pd.contact_existed_before /\ cat_pd.org_existed_before
                     -> "created: contact & company already exist"
                [] cat_pd.contact_existed_before /\ ~cat_pd.org_existed_before
                     -> "created: contact already exists"
                [] ~cat_pd.contact_existed_before /\ cat_pd.org_existed_before
                     -> "created: company already exists"
                [] OTHER -> "created: new contact, company & deal")

\* C15 witness: a deal created for a new contact in a known company was
\* categorized "company already exists".
C15_Witness ==
    /\ catPc = "done"
    /\ ConfidentOpportunity(cat_ai)
    /\ cat_pd # PyNone
    /\ cat_pd.deal_created
    /\ ~cat_pd.contact_existed_before
    /\ cat_pd.org_existed_before
    /\ cat_outcome = Returned("Created: Company already exists")

\* C16: for a confident opportunity whose resolution neither created a deal
\* nor carries the open-deal reason, the label is "error: failed to
\* process".
C16_OtherwiseIsError ==
    (catPc = "done" /\ ConfidentOpportunity(cat_ai) /\ cat_pd # PyNone
        /\ ~cat_pd.deal_created /\ cat_pd.reason # OpenDealReason)
        => LabelIs(cat_outcome, "error: failed to process")

\* C17: the outcome process_email returns stands for a label of the
\* taxonomy.
C17_OutcomeInTaxonomy ==
    pc = "returned" => (result.raised = "" /\ result.outcome \in DOMAIN TaxonomyLabel)

\* C18: the access_token and the refresh_token held in the integrations
\* record are in encrypted form in every state, also after a refresh.
C18_StoredSecretsEncrypted ==
    /\ stored.access_token.form = "encrypted"
    /\ stored.refresh_token.form = "encrypted"

\* C19: a read during which decrypt_token raised fails, and no read returns
\* a stored value in place of the token.
C19_DecryptFailureIsHardError ==
    credPc = "done" =>
        /\ credFailed => credResult.raised # ""
        /\ credResult.raised = "" =>
              \A f \in {"access_token", "refresh_token"} :
                  \/ credResult.value[f] = PyNone
                  \/ credResult.value[f].form \in {"clear", "garbage"}

\* the refresh request of a call can be sent now
RefreshRequestEnabled(c) ==
    ENABLED (\E outcome \in {"ok", "token_error"}, rotates \in BOOLEAN :
                RefreshRequest(c, outcome, rotates))

\* C20: a call that received 401 is never held back from its refresh by
\* what another call of the same (user, provider) is doing, and every
\* refresh request carries the refresh token its own manager holds.
C20_RefreshUncoordinated ==
    /\ \A c \in Callers : rPc[c] = "refresh" => RefreshRequestEnabled(c)
    /\ \A i \in 1..Len(rRefreshLog) :
          rRefreshLog[i].refresh_token # 0

\* C20 witness: both calls sent a refresh request with the same refresh
\* token, the second while the first one's response was still under way and
\* the store still held that refresh token.
C20_Witness ==
    /\ Len(rRefreshLog) = 2
    /\ rRefreshLog[1].caller # rRefreshLog[2].caller
    /\ rRefreshLog[1].refresh_token = rRefreshLog[2].refresh_token
    /\ rRefreshLog[1].stored = rRefreshLog[2].stored
    /\ \A c \in Callers : rPc[c] = "await_token"

\* C21: once every concurrent call has finished, and finished with a value,
\* the stored token pair is the pair the token endpoint issued last.
C21_StoredPairIsLatestIssued ==
    (/\ \A c \in Callers : rPc[c] = "done" /\ rResult[c] = "value"
     /\ rIssued > 1)
    => rStored.access_token.tok = rIssued

\* the first CRM request of a resolution can be sent now
ResolutionEnabled(w) == ENABLED ResolveContactHasDeals(w)

\* the contacts the engine created for the recipient, and the recipient's
\* open deals
EngineContacts(email) == {p \in persons : p.email = email}
OpenDealsFor(email) ==
    {d \in deals : /\ d.status = "open"
                   /\ \E p \in persons : /\ p.id = d.person_id
                                         /\ LowerAddress(p.email) = LowerAddress(email)}

\* C22: a resolution is never held back by another resolution for the same
\* recipient, and what it creates follows from what it observed itself: it
\* holds a contact from its own lookup or creation whenever it goes on to
\* the deal.
C22_ResolutionTakesNoLock ==
    /\ \A w \in Workers : wPc[w] = "start" => ResolutionEnabled(w)
    /\ \A w \in Workers :
          wPc[w] \in {"recheck_open_deal", "create_deal"}
              => /\ wLocal[w].contact # 0
                 /\ ~wLocal[w].has_open_deal

\* C22 witness: both resolutions have returned with a deal created, and the
\* recipient has two engine-created contacts and two open deals.
C22_Witness ==
    /\ \A w \in Workers : wPc[w] = "done" /\ wResult[w] = "True"
    /\ Cardinality(EngineContacts(ResolvedRecipient)) = 2
    /\ Cardinality(OpenDealsFor(ResolvedRecipient)) = 2

\* C23: the email store never holds two rows with the same user_id and
\* message id.
C23_EmailRowUnique ==
    \A u \in Users, m \in Messages : Cardinality(EmailRows(u, m)) <= 1

\* C24: no two contacts of the CRM have the same email address, letter case
\* aside, whatever calls failed while the emails were handled one by one.
C24_NoTwoContactsShareEmail ==
    \A p \in persons, q \in persons :
        LowerAddress(p.email) = LowerAddress(q.email) => p = q

\* the text of a Python str, from its repr
StrOf(v) == IF v = "'Acme'" THEN "Acme" ELSE ""

\* the candidate organization name: the contact's existing organization
\* name, else the classified one, else the capitalized domain label
CandidateOrganization(contact_org, ai, to) ==
    IF contact_org # "" THEN contact_org
    ELSE IF Truthy(ai.organization_name) THEN StrOf(ai.organization_name)
    ELSE Capitalize(to.labels[1])

\* the name of the organization a contact is linked to ("" when none)
OrganizationOf(contact_id) ==
    LET linked == {o \in organizations :
                      \E p \in persons : p.id = contact_id /\ p.org_id = o.id}
    IN  IF linked = {} THEN "" ELSE (CHOOSE o \in linked : TRUE).name

\* C25: the organization resolve looked up is the candidate by precedence,
\* and a contact resolve created is linked to the organization of that name.
C25_CandidateOrganizationByPrecedence ==
    /\ (pc = "create_contact" /\ faults = 0 /\ ai_result # PyNone)
          => org_exists =
                (\E o \in organizations :
                    Lower(o.name) =
                      Lower(CandidateOrganization(
                                OrganizationOf(deal_check.contact.id),
                                ai_result, email_data.to)))
    /\ (/\ pc = "create_deal" /\ ~contact_existed /\ ai_result # PyNone
        /\ faults = 0
        /\ deal_check.contact # NoContact
        /\ OrganizationOf(deal_check.contact.id) # "")
          => OrganizationOf(deal_check.contact.id) =
                CandidateOrganization("", ai_result, email_data.to)

\* the result of resolve carries the key that flags a failure
FlagsFailure(pd) == "error" \in DOMAIN pd

\* C26: resolve returns, and a result that does not flag a failure and says
\* the contact did not exist before is the result of a run in which no
\* contact with the recipient's address existed: every such contact is the
\* one the result holds.
C26_FailedStepDistinguishable ==
    (/\ pc = "categorize"
     /\ ~FlagsFailure(deal_check)
     /\ ~deal_check.contact_existed_before)
    => \A p \in persons :
          LowerAddress(p.email) = LowerAddress(email_data.to)
              => p.id = deal_check.contact.id

\* the notes appended to a deal
NotesOf(deal_id) == {n \in notes : n.deal_id = deal_id}

\* the deal the current invocation created (the one it asked the note for)
CreatedDeals == {d \in deals : d.person_id = deal_check.contact.id /\ d.id = Cardinality(deals)}

\* C27: once resolve has created a deal, a failing summary or note request
\* leaves deal_created true; and when the summary generation failed while
\* the note request did not, the deal has a note with the fallback summary.
C27_NoteFailureKeepsDeal ==
    (pc = "categorize" /\ note_log # NoNote)
    => /\ deal_check.deal_created
       /\ (note_log.summary = "fallback" /\ note_log.posted # "failed")
             => \E d \in CreatedDeals :
                   \E n \in NotesOf(d.id) : n.summary = "fallback"

\* the classification of the scenario: an opportunity, confidence 0.9,
\* organization_name null
ScenarioClassification(ai) ==
    /\ ai # PyNone
    /\ ai.is_sales_opportunity = "True"
    /\ ai.confidence = "0.9"
    /\ ai.organization_name = "None"

\* the open deals the contact of the result had before the invocation
PriorOpenDeals ==
    IF deal_check.deal_created
    THEN OpenDealsOf(deal_check.contact.id) \ CreatedDeals
    ELSE OpenDealsOf(deal_check.contact.id)

\* C28: with no failing call, (1) an opportunity email with confidence 0.9
\* and no organization name, to an address without contact and whose domain
\* has no organization, ends with the domain-named organization, a new
\* contact linked to it and an open deal, outcome "created: new contact,
\* company & deal"; (2) an opportunity email to an address whose contact has
\* an open deal creates no deal, outcome "not created: deal already exists".
C28_TwoEmailSequence ==
    /\ (/\ pc = "returned" /\ faults = 0 /\ result.raised = ""
        /\ ScenarioClassification(ai_result)
        /\ ~contact_existed /\ ~org_exists)
          => /\ deal_check.contact # NoContact
             /\ \E p \in persons : /\ p.id = deal_check.contact.id
                                   /\ p.email = email_data.to
             /\ OrganizationOf(deal_check.contact.id) = Capitalize(email_data.to.labels[1])
             /\ deal_check.deal_created
             /\ Cardinality(OpenDealsOf(deal_check.contact.id)) = 1
             /\ LabelIs(Returned(result.outcome), "created: new contact, company & deal")
    /\ (/\ pc = "returned" /\ faults = 0 /\ result.raised = ""
        /\ ConfidentOpportunity(ai_result)
        /\ contact_existed /\ PriorOpenDeals # {})
          => /\ ~deal_check.deal_created
             /\ Cardinality(OpenDealsOf(deal_check.contact.id)) = 1
             /\ LabelIs(Returned(result.outcome), "not created: deal already exists")

\* C28 witness: the second email to the address has been processed; the
\* contact is the one the first email created, its deal is still the only
\* one, and the outcome is "Not created: Deal already exists".
C28_Witness ==
    /\ handled = 1 /\ pc = "returned" /\ faults = 0
    /\ ScenarioClassification(ai_result)
    /\ email_data.to = Anna
    /\ \E p \in persons : /\ p.id = deal_check.contact.id
                          /\ p.email = Anna
                          /\ OrganizationOf(p.id) = "Novonordisk"
    /\ Cardinality(OpenDealsOf(deal_check.contact.id)) = 1
    /\ ~deal_check.deal_created
    /\ result.outcome = "Not created: Deal already exists"

\* C29: a notification that goes on to the mapping check, the fetch of the
\* message and the insert is for a message without row in the email store,
\* and a notification reported as skipped duplicate is for a recorded one.
C29_DuplicateSkippedBeforeFetch ==
    /\ pc \in {"verify", "fetch", "store"}
          => EmailRows(notification.user_id, notification.message_id) = {}
    /\ (pc = "idle" /\ disposition = "skipped_duplicate")
          => EmailRows(notification.user_id, notification.message_id) # {}

\* the checks answered True in the seconds from..to
RECURSIVE AdmittedIn(_, _)
AdmittedIn(from, to) ==
    IF from > to THEN 0 ELSE rlAdmitted[from] + AdmittedIn(from + 1, to)

\* the last second of the span of window_seconds that begins at t
SpanEnd(t, window_seconds) ==
    IF t + window_seconds - 1 > MaxClock THEN MaxClock ELSE t + window_seconds - 1

\* C30: for an operation with a limit, and with no store call failing, the
\* checks answered True in any span of window_seconds are at most
\* max_requests.
C30_AtMostMaxRequestsPerWindow ==
    (rlOperation \in DOMAIN rate_limits /\ rlFaults = 0)
    => \A t \in Seconds :
          AdmittedIn(t, SpanEnd(t, rate_limits[rlOperation].window_seconds))
              <= rate_limits[rlOperation].max_requests

\* the classification request of the current invocation has been issued
ClassificationCalled ==
    pc \in {"contact_has_deals", "has_open_deal", "search_organization",
            "create_contact", "create_deal", "categorize", "returned"}

\* C31: once the classification request or a CRM request of an email has
\* been issued, check_rate_limit has been called and has answered.
C31_LimiterConsultedBeforeCalls ==
    (ClassificationCalled \/ crmCalled) => rlReturned # "none"

\* C32: when the first request of the message fetch is answered 401, the
\* fetch refreshes the token once and retries once with the new token.
C32_FetchRefreshesOnceOn401 ==
    (callPc = "done" /\ requests # << >> /\ requests[1].status_code = 401)
        => /\ refreshes = 1
           /\ Len(requests) = 2
           /\ requests[2].token # requests[1].token
\* every attempt of the classification request made so far has failed
AllAttemptsFailed ==
    \A i \in 1..Len(statuses) :
        analyze_email_body(HttpResponse(statuses[i], content)).raised # ""

\* C33: the classification request is attempted at most three times for
\* one email; when three attempts have failed the classification is null,
\* process_email returns an error result, and no CRM request is issued.
C33_ThreeAttemptsThenError ==
    /\ Len(statuses) <= 3
    /\ (Len(statuses) = 3 /\ AllAttemptsFailed)
          => /\ clsPc = "classified"
             /\ parsed.raised # ""
             /\ ~crmCalled
             /\ pc \in {"analyze", "returned"}
             /\ pc = "returned"
                   => /\ ai_result = PyNone
                      /\ ~result.success
                      /\ result = create_error_result("AI analysis failed")

\* C33 witness: three attempts failed, the last two with HTTP 500, and
\* process_email has returned its error result.
C33_Witness ==
    /\ Len(statuses) = 3
    /\ AllAttemptsFailed
    /\ statuses[3] = 500
    /\ pc = "returned"
    /\ ~result.success
    /\ ~crmCalled
\* the resolution result of the current invocation: the dict of
\* _handle_pipedrive_operations, None when process_email returned before it
ResolutionResult == IF crmCalled THEN deal_check ELSE PyNone

\* C34: when process_email returned for a classification, the label it
\* returned is the label the categorizer gives for that classification and
\* the resolution result of the invocation.
C34_ReturnedLabelIsCategorized ==
    (pc = "returned" /\ ai_result # PyNone /\ result.raised = "" /\ result.success
        /\ categorize_webhook_outcome(ai_result, ResolutionResult).raised = "")
        => result.outcome = categorize_webhook_outcome(ai_result, ResolutionResult).value
\* the first client's refresh has persisted its new pair
RefreshPersisted == refreshes = 1 /\ ~refreshFailed /\ callPc \in {"retry", "done"}

\* the tokens a client holds after loading the pair in the clear
LoadedPair(pair) ==
    Returned([access_token  |-> Clear(pair.access_token),
              refresh_token |-> Clear(pair.refresh_token)])

\* C35: a client constructed after a refresh persisted the new pair loads
\* exactly the refreshed tokens, for either provider.
C35_PersistThenLoadIsIdentity ==
    (RefreshPersisted /\ credPc = "done" /\ credRow = StoredRow)
        => credResult = LoadedPair(tokens)
\* C36: when the refresh attempt failed, the pair in memory and the stored
\* pair are the ones from before the attempt; in particular the client does
\* not hold a new access token while the store holds the old one.
C36_FailedRefreshChangesNothing ==
    refreshFailed
        => /\ tokens.access_token = 1
           /\ stored = [access_token  |-> Encrypted(1),
                        refresh_token |-> Encrypted(tokens.refresh_token)]
           /\ stored.access_token.tok = tokens.access_token
\* the processing statuses of the rows of the notification being handled
RowStatus ==
    {emails[i].processing_status :
        i \in {j \in 1..Len(emails) :
                  /\ emails[j].user_id = notification.user_id
                  /\ emails[j].microsoft_email_id = notification.message_id}}

\* the step of process_email_webhook that follows the AI processing
AfterProcessing == pc \in {"returned", "ai_error"} /\ pc' = "idle"

\* the Orchestrator returned a successful result
OrchestratorSucceeded == pc = "returned" /\ result.raised = "" /\ result.success

C38_UpdateLeavesOtherUsersRows ==
    [][AfterProcessing =>
          /\ Len(emails') = Len(emails)
          /\ \A i \in 1..Len(emails) :
                emails[i].user_id # notification.user_id => emails'[i] = emails[i]]_vars
\* the ways the handling of a notification ends in a failure
FailureDispositions ==
    {"invalid", "mapping_failed", "fetch_failed", "store_failed", "ai_failed",
     "update_failed"}

\* a notification is being handled: the loop body has not reached its end
InHandling ==
    pc \in {"verify", "fetch", "store", "construct", "analyze", "ai_error",
            "contact_has_deals", "has_open_deal", "search_organization",
            "create_contact", "create_deal", "categorize", "returned"}

====
